---- MODULE Spec2Model ----
(***************************************************************************)
(* Model of the Amazon Music client (src/amazonmusic.ts): the URL parser,  *)
(* the metadata extractor, the resource assemblers and the search          *)
(* harvester.  Strings are TLA+ strings read character by character.       *)
(***************************************************************************)
EXTENDS Integers, Sequences, FiniteSets, TLC

VARIABLES
    url,        \* parseUrl: the input string
    urlParts,   \* parseUrl: the pieces the input string was built from
    parsed,     \* parseUrl: the returned value, NotCalled before the call
    markup,     \* parseOpenGraph: the html argument
    metadata,   \* parseOpenGraph: the local record metadata
    stage,      \* parseOpenGraph: the number of stages done, 5 = returned
    raised,     \* parseOpenGraph: an exception left the function
    op,         \* client: the method the caller invoked, "none" before
    pc,         \* client: where the call stands (which await it is at)
    argId,      \* client: the id argument of an assembler call
    limit,      \* search: the limit argument
    html,       \* search: the RU= values linkRegex finds in the page, in order
    pos,        \* search: the index of the next match of linkRegex
    results,    \* search: the local list results
    processedIds, \* search: the local set processedIds
    trackId,    \* getTrack: the id argument
    trackMd,    \* getTrack: the local record metadata
    requests,   \* the outbound requests issued so far, in order
    responses,  \* the answers received so far, in order
    outcome,    \* "pending", "returned" or "threw"
    retval,     \* the value returned
    config,     \* constructor: the config argument
    created,    \* constructor: "no" before it ran, then "yes" or "threw"
    searchLimit, \* the field this.searchLimit, 0 before construction
    timeout,    \* the field this.timeout, 0 before construction
    fetchPc,    \* fetchMetadata: "idle", "waiting", "body" or "done"
    now,        \* fetchMetadata: milliseconds since the start of the run
    deadline,   \* fetchMetadata: the time the timer of line 187 is due
    timerId,    \* fetchMetadata: TRUE while that timer is pending
    aborted,    \* fetchMetadata: controller.abort() was called
    responded,  \* fetchMetadata: the promise of fetch was fulfilled
    sent,       \* fetchMetadata: the number of GET requests issued
    fetchResult, \* fetchMetadata: what the call returned or threw
    request,    \* server: the HTTP request being handled, NULL for none
    reply       \* server: the HTTP response sent, NULL before

parseVars == <<url, urlParts, parsed>>
extractVars == <<markup, metadata, stage, raised>>
searchVars == <<limit, html, pos, results, processedIds>>
clientVars == <<op, pc, argId, limit, html, pos, results, processedIds, trackId,
                trackMd, requests, responses, outcome, retval>>
configVars == <<config, created, searchLimit, timeout>>
fetchVars == <<fetchPc, now, deadline, timerId, aborted, responded, sent,
               fetchResult>>
serverVars == <<request, reply>>
vars == <<url, urlParts, parsed, markup, metadata, stage, raised, op, pc, argId,
          limit, html, pos, results, processedIds, trackId, trackMd, requests,
          responses, outcome, retval, config, created, searchLimit, timeout,
          fetchPc, now, deadline, timerId, aborted, responded, sent,
          fetchResult, request, reply>>

\* ------------------------------------------------------------------ bounds
MaxIdLen == 2
MaxMetas == 2
MaxTitleWords == 3
MaxJsonLds == 2
MaxLinks == 2
MaxLimit == 2
MaxLinks2 == 1
MaxBeyond == 2
MaxTime == 3
\* the largest number a duration component is drawn from
MaxComponent == 5
\* the number of fetchMetadata calls made one after the other
MaxCalls == 2

\* ----------------------------------------------------------------- strings
NULL == [null |-> TRUE]
NotCalled == [notCalled |-> TRUE]

Ch(s, i) == SubSeq(s, i, i)

UpperAlpha == "ABCDEFGHIJKLMNOPQRSTUVWXYZ"
LowerAlpha == "abcdefghijklmnopqrstuvwxyz"
DigitChars == "0123456789"
UpperSet == {Ch(UpperAlpha, i) : i \in 1..Len(UpperAlpha)}
LowerSet == {Ch(LowerAlpha, i) : i \in 1..Len(LowerAlpha)}
DigitSet == {Ch(DigitChars, i) : i \in 1..Len(DigitChars)}
AlnumSet == UpperSet \cup LowerSet \cup DigitSet
WhiteSet == {" ", "\t", "\n", "\r"}
LineTerminators == {"\n", "\r"}

ToLowerChar(c) ==
    IF c \in UpperSet
    THEN Ch(LowerAlpha, CHOOSE i \in 1..Len(UpperAlpha) : Ch(UpperAlpha, i) = c)
    ELSE c

\* lit (written in lower case) stands in s at position i, letter case ignored
LitAtCI(s, i, lit) ==
    /\ i >= 1
    /\ i + Len(lit) - 1 <= Len(s)
    /\ \A k \in 1..Len(lit) : ToLowerChar(Ch(s, i + k - 1)) = Ch(lit, k)

\* lit stands in s at position i, exactly
LitAt(s, i, lit) ==
    /\ i >= 1
    /\ i + Len(lit) - 1 <= Len(s)
    /\ SubSeq(s, i, i + Len(lit) - 1) = lit

\* String.prototype.trim
TrimOf(s, keep) ==
    IF keep = {} THEN ""
    ELSE SubSeq(s, CHOOSE i \in keep : \A j \in keep : i <= j,
                   CHOOSE i \in keep : \A j \in keep : i >= j)

Trim(s) == TrimOf(s, {i \in 1..Len(s) : Ch(s, i) \notin WhiteSet})

\* String.prototype.includes
Includes(s, lit) == \E i \in 1..Len(s) : LitAt(s, i, lit)

\* --------------------------------------------------------------- parseUrl
\* a pattern that lost its last alternative
UrlTypesWithoutUserPlaylists == <<"albums", "tracks", "artists", "playlists">>

\* The alternatives of the named group "type", in the order of the pattern.
UrlTypes == <<"albums", "tracks", "artists", "playlists", "user-playlists">>

\* (?:[/?].*)?$ taken at position p: one of / ?, then no line terminator to the end
UrlTailAt(s, p) ==
    /\ p <= Len(s)
    /\ Ch(s, p) \in {"/", "?"}
    /\ \A k \in (p + 1)..Len(s) : Ch(s, k) \notin LineTerminators

\* (?:\/[^/?#]+)?(?:[/?].*)?$ from position p
UrlRestAt(s, p) ==
    \/ p = Len(s) + 1
    \/ UrlTailAt(s, p)
    \/ /\ p <= Len(s)
       /\ Ch(s, p) = "/"
       /\ \E e \in (p + 1)..Len(s) :
            /\ \A k \in (p + 1)..e : Ch(s, k) \notin {"/", "?", "#"}
            /\ (e = Len(s) \/ UrlTailAt(s, e + 1))

\* The smallest and the largest element of a non-empty set of positions.
MinOf(S) == CHOOSE x \in S : \A y \in S : x <= y
MaxOf(S) == CHOOSE x \in S : \A y \in S : x >= y

\* (?<id>[A-Za-z0-9]+) from idFrom and the rest of the pattern: the ends of
\* the id for which the rest matches
UrlIdEnds(s, idFrom) ==
    {e \in idFrom..Len(s) :
        /\ \A k \in idFrom..e : Ch(s, k) \in AlnumSet
        /\ UrlRestAt(s, e + 1)}

\* the groups, the type standing at typeFrom and the id at idFrom; the id
\* is the longest one the rest of the pattern admits
UrlGroups(s, typeFrom, idFrom, idEnds) ==
    IF ~ LitAt(s, idFrom - 1, "/") \/ idEnds = {} THEN NULL
    ELSE [type |-> SubSeq(s, typeFrom, idFrom - 2),
          id |-> SubSeq(s, idFrom, MaxOf(idEnds))]

\* \/(?<type>...)\/(?<id>...) and the rest, the host ending before hostEnd;
\* alts are the alternatives of the type that stand at hostEnd + 1
UrlAfterHost(s, hostEnd, alts) ==
    IF alts = {} THEN NULL
    ELSE UrlGroups(s, hostEnd + 1, hostEnd + 2 + Len(UrlTypes[MinOf(alts)]),
                   UrlIdEnds(s, hostEnd + 2 + Len(UrlTypes[MinOf(alts)])))

\* [^/]+ from hostFrom: the host runs to the first / found in slashes
UrlHost(s, hostFrom, slashes) ==
    IF slashes = {} \/ MinOf(slashes) <= hostFrom THEN NULL
    ELSE UrlAfterHost(s, MinOf(slashes),
                      {a \in 1..Len(UrlTypes) :
                          LitAtCI(s, MinOf(slashes) + 1, UrlTypes[a])})

\* :\/\/music\.amazon\. at afterS, then the host
UrlAfterScheme(s, afterS) ==
    IF ~ LitAtCI(s, afterS, "://music.amazon.") THEN NULL
    ELSE UrlHost(s, afterS + Len("://music.amazon."),
                 {h \in (afterS + Len("://music.amazon."))..Len(s) : Ch(s, h) = "/"})

\* The match of URL_PATTERN that starts at position i, or NULL.
UrlMatchAt(s, i) ==
    IF ~ LitAtCI(s, i, "http") THEN NULL
    ELSE UrlAfterScheme(s, IF LitAtCI(s, i + 4, "s") THEN i + 5 ELSE i + 4)

\* url.match(URL_PATTERN) on the trimmed string: the leftmost match
UrlMatch(s, starts) ==
    IF starts = {} THEN NULL ELSE UrlMatchAt(s, MinOf(starts))

UrlMatchOf(s) == UrlMatch(s, {i \in 1..Len(s) : UrlMatchAt(s, i) # NULL})

parseUrl(u) == UrlMatchOf(Trim(u))

\* -------------------------------------------------------- string methods
\* String.prototype.indexOf, counted from 1; 0 when lit does not occur
IndexIn(hits) == IF hits = {} THEN 0 ELSE MinOf(hits)

IndexOf(s, lit) == IndexIn({i \in 1..Len(s) : LitAt(s, i, lit)})

\* String.prototype.split with a non-empty separator
RECURSIVE Split(_, _)
SplitAt(s, sep, i) ==
    IF i = 0 THEN <<s>>
    ELSE <<SubSeq(s, 1, i - 1)>> \o Split(SubSeq(s, i + Len(sep), Len(s)), sep)

Split(s, sep) == SplitAt(s, sep, IndexOf(s, sep))

\* String.prototype.replace with a string pattern: the first occurrence only
ReplaceAt(s, lit, by, i) ==
    IF i = 0 THEN s
    ELSE SubSeq(s, 1, i - 1) \o by \o SubSeq(s, i + Len(lit), Len(s))

ReplaceFirst(s, lit, by) == ReplaceAt(s, lit, by, IndexOf(s, lit))

\* parseInt of a string of decimal digits
RECURSIVE ParseInt(_)
ParseInt(d) ==
    IF d = "" THEN 0
    ELSE 10 * ParseInt(SubSeq(d, 1, Len(d) - 1))
         + (CHOOSE v \in 0..9 : Ch(DigitChars, v + 1) = Ch(d, Len(d)))

\* --------------------------------------------------------- parseOpenGraph
\* U+2013 EN DASH; a module is written in ASCII, so the character is
\* written ~ and no other string of the model holds ~.
EnDash == "~"
separators == <<" " \o EnDash \o " ", " - ", " | ">>
BrandName == "Amazon Music"

\* const metadata = {url, title: '', ..., duration: 0}
DefaultMetadata(u) ==
    [url |-> u, title |-> "", description |-> "", image |-> "", type |-> "",
     site_name |-> "", audio |-> "", artist |-> "", album |-> "",
     albumUrl |-> "", duration |-> 0]

MetadataFields == {"url", "title", "description", "image", "type", "site_name",
                   "audio", "artist", "album", "albumUrl", "duration"}

\* a field still holds its default: !metadata.field
FieldIsDefault(md, f) == IF f = "duration" THEN md[f] = 0 ELSE md[f] = ""

\* the body of the while loop over the matches of metaRegex
ApplyMeta(md, m) ==
    IF m.prefix = "og:"
    THEN CASE m.property = "title" -> [md EXCEPT !.title = m.content]
           [] m.property = "description" -> [md EXCEPT !.description = m.content]
           [] m.property \in {"image", "image:secure_url"} ->
                IF md.image = "" THEN [md EXCEPT !.image = m.content] ELSE md
           [] m.property = "type" -> [md EXCEPT !.type = m.content]
           [] m.property = "site_name" -> [md EXCEPT !.site_name = m.content]
           [] m.property \in {"audio", "audio:url", "audio:secure_url"} ->
                IF md.audio = "" THEN [md EXCEPT !.audio = m.content] ELSE md
           [] OTHER -> md
    ELSE IF m.prefix = "music:" /\ m.property = "album"
    THEN [md EXCEPT !.albumUrl = m.content]
    ELSE md

\* metaRegex matches a tag: <meta property="(og:|music:)..." content="...",
\* the property attribute first, then the content attribute
MetaRegexMatches(m) == m.order = "property-content" /\ m.prefix \in {"og:", "music:"}

\* stage 1: every match of metaRegex, in the order of the markup
RECURSIVE ScanMetaTags(_, _)
ScanMetaTags(md, metas) ==
    IF metas = <<>> THEN md
    ELSE ScanMetaTags(IF MetaRegexMatches(Head(metas))
                      THEN ApplyMeta(md, Head(metas)) ELSE md,
                      Tail(metas))

\* stage 2: the first <title> element, when no title was found
TitleFallback(md, titles) ==
    IF md.title = "" /\ titles # <<>>
    THEN [md EXCEPT !.title = Trim(ReplaceFirst(Head(titles), " | Amazon Music", ""))]
    ELSE md

\* (?:(\d+)<unit>)? from position p of d: the digits of the group ("" when
\* the group takes no part) and the position after it
DurationPart(d, p, unit) ==
    IF \E e \in p..Len(d) : (\A k \in p..e : Ch(d, k) \in DigitSet) /\ LitAt(d, e + 1, unit)
    THEN [digits |-> SubSeq(d, p, (CHOOSE e \in p..Len(d) :
                                      /\ \A k \in p..e : Ch(d, k) \in DigitSet
                                      /\ LitAt(d, e + 1, unit))),
          next |-> 2 + (CHOOSE e \in p..Len(d) :
                           /\ \A k \in p..e : Ch(d, k) \in DigitSet
                           /\ LitAt(d, e + 1, unit))]
    ELSE [digits |-> "", next |-> p]

\* a sum that counts the minutes as seconds
DurationHMSFlat(h, m, sec) ==
    ParseInt(h.digits) * 3600 + ParseInt(m.digits) + ParseInt(sec.digits)

DurationHMS(h, m, sec) ==
    ParseInt(h.digits) * 3600 + ParseInt(m.digits) * 60 + ParseInt(sec.digits)

DurationAfterM(d, h, m) == DurationHMS(h, m, DurationPart(d, m.next, "S"))
DurationAfterH(d, h) == DurationAfterM(d, h, DurationPart(d, h.next, "M"))

\* /PT(?:(\d+)H)?(?:(\d+)M)?(?:(\d+)S)?/.exec(d), PT standing at pt, and
\* hours * 3600 + minutes * 60 + seconds of its groups
DurationAt(d, pt) == DurationAfterH(d, DurationPart(d, pt + 2, "H"))

\* if (jsonLd.duration) { ... if (durationMatch) metadata.duration = ... }
SetDuration(md, d, pt) ==
    IF d # "" /\ pt # 0 THEN [md EXCEPT !.duration = DurationAt(d, pt)] ELSE md

\* if (jsonLd.inAlbum) metadata.album = jsonLd.inAlbum.name || ''
SetAlbum(md, inAlbum) ==
    IF inAlbum.present THEN [md EXCEPT !.album = inAlbum.name] ELSE md

\* if (jsonLd.byArtist) metadata.artist = byArtist.name || byArtist['@id'] || ''
SetArtist(md, byArtist) ==
    IF byArtist.present
    THEN [md EXCEPT !.artist = IF byArtist.name # "" THEN byArtist.name ELSE byArtist.id]
    ELSE md

\* the body of the try block of stage 3 on the first ld+json block:
\* threw is TRUE when JSON.parse or the read of '@type' throws
ReadJsonLd(md, block) ==
    IF block.json \in {"invalid", "null"}
    THEN [md |-> md, threw |-> TRUE]
    ELSE IF block.json # "object" \/ block.type # "MusicRecording"
    THEN [md |-> md, threw |-> FALSE]
    ELSE [md |-> SetDuration(SetAlbum(SetArtist(md, block.byArtist), block.inAlbum),
                             block.duration, IndexOf(block.duration, "PT")),
          threw |-> FALSE]

\* a stage 3 without its try/catch
RethrowJsonLd(r) == r

\* catch (e) { /* JSON-LD parsing failed, continue */ }
CatchJsonLd(r) == [md |-> r.md, threw |-> FALSE]

\* stage 3: the first ld+json block, inside try/catch
JsonLdStage(md, jsonlds) ==
    IF jsonlds = <<>> THEN [md |-> md, threw |-> FALSE]
    ELSE CatchJsonLd(ReadJsonLd(md, Head(jsonlds)))

\* the separators the title includes, as indexes of the list
SeparatorsIn(title) == {k \in 1..Len(separators) : Includes(title, separators[k])}

\* the separator that stands first in the title, instead of the first of
\* the list
FirstSeparatorByPosition(title) ==
    IF SeparatorsIn(title) = {} THEN 0
    ELSE CHOOSE k \in SeparatorsIn(title) :
            \A j \in SeparatorsIn(title) :
                IndexOf(title, separators[k]) <= IndexOf(title, separators[j])

\* the first separator of the list that the title includes, 0 when none
FirstSeparator(title) == IndexIn(SeparatorsIn(title))

\* the candidate of a split: parts[parts.length - 1].trim()
LastTrimmed(parts) == Trim(parts[Len(parts)])

\* if (potentialArtist && potentialArtist !== 'Amazon Music')
SetArtistFromTitle(md, potentialArtist) ==
    IF potentialArtist # "" /\ potentialArtist # BrandName
    THEN [md EXCEPT !.artist = potentialArtist]
    ELSE md

\* the body of the separator loop for the k-th separator, 0 for none
SplitTitleOn(md, k) ==
    IF k = 0 THEN md
    ELSE SetArtistFromTitle(md, LastTrimmed(Split(md.title, separators[k])))

\* a stage 4 that lost its guard on the artist
TitleSplitUnguarded(md) ==
    IF md.title # "" /\ FirstSeparator(md.title) # 0
    THEN [md EXCEPT !.artist =
             LastTrimmed(Split(md.title, separators[FirstSeparator(md.title)]))]
    ELSE md

\* stage 4: the artist from the title
TitleSplit(md) ==
    IF md.artist = "" /\ md.title # ""
    THEN SplitTitleOn(md, FirstSeparator(md.title))
    ELSE md

QuoteSet == {"\"", "'"}

\* the end of the run of [^"'] that starts at g (g - 1 for an empty run)
QuoteFreeEnd(d, g) ==
    IF \E e \in g..Len(d) : Ch(d, e) \in QuoteSet
    THEN MinOf({e \in g..Len(d) : Ch(d, e) \in QuoteSet}) - 1
    ELSE Len(d)

\* ["']?([^"']+) after the white space that ends at w: the optional quote
\* is tried first; ok is FALSE when the group finds no character
AlbumGroupAfter(d, w) ==
    IF w + 1 <= Len(d) /\ Ch(d, w + 1) \in QuoteSet /\ QuoteFreeEnd(d, w + 2) >= w + 2
    THEN [ok |-> TRUE, text |-> SubSeq(d, w + 2, QuoteFreeEnd(d, w + 2))]
    ELSE IF QuoteFreeEnd(d, w + 1) >= w + 1
    THEN [ok |-> TRUE, text |-> SubSeq(d, w + 1, QuoteFreeEnd(d, w + 1))]
    ELSE [ok |-> FALSE, text |-> ""]

\* \s+ from position p, the longest run first: the ends after which the
\* group matches
AlbumSpaceEnds(d, p) ==
    {w \in p..Len(d) : (\A k \in p..w : Ch(d, k) \in WhiteSet) /\ AlbumGroupAfter(d, w).ok}

\* the match whose keyword (from, on) stands at i
AlbumMatchAt(d, i) ==
    IF LitAtCI(d, i, "from") /\ AlbumSpaceEnds(d, i + 4) # {}
    THEN AlbumGroupAfter(d, MaxOf(AlbumSpaceEnds(d, i + 4)))
    ELSE IF LitAtCI(d, i, "on") /\ AlbumSpaceEnds(d, i + 2) # {}
    THEN AlbumGroupAfter(d, MaxOf(AlbumSpaceEnds(d, i + 2)))
    ELSE [ok |-> FALSE, text |-> ""]

AlbumMatchIn(d, starts) ==
    IF starts = {} THEN [matched |-> FALSE, text |-> ""]
    ELSE [matched |-> TRUE, text |-> AlbumMatchAt(d, MinOf(starts)).text]

\* /(?:from|on)\s+["']?([^"']+)["']?/i.exec(d): group 1 of the leftmost match
AlbumMatch(d) == AlbumMatchIn(d, {i \in 1..Len(d) : AlbumMatchAt(d, i).ok})

\* if (potentialAlbum && potentialAlbum !== 'Amazon Music')
SetAlbumFromDescription(md, albumMatch, potentialAlbum) ==
    IF albumMatch.matched /\ potentialAlbum # "" /\ potentialAlbum # BrandName
    THEN [md EXCEPT !.album = potentialAlbum]
    ELSE md

SetAlbumFromMatch(md, albumMatch) ==
    SetAlbumFromDescription(md, albumMatch, Trim(albumMatch.text))

\* stage 5: the album from the description
DescriptionAlbum(md) ==
    IF md.album = "" /\ md.description # ""
    THEN SetAlbumFromMatch(md, AlbumMatch(md.description))
    ELSE md

\* stages 4 and 5 after stage 3, unless stage 3 threw
AfterJsonLd(r) ==
    IF r.threw THEN [md |-> r.md, threw |-> TRUE]
    ELSE [md |-> DescriptionAlbum(TitleSplit(r.md)), threw |-> FALSE]

\* parseOpenGraph(html, url): the five stages in order; threw is TRUE when
\* an exception leaves the function
parseOpenGraph(page, u) ==
    AfterJsonLd(JsonLdStage(TitleFallback(ScanMetaTags(DefaultMetadata(u), page.metas),
                                          page.titles),
                            page.jsonlds))

\* ------------------------------------------- decode / encodeURIComponent
\* the characters U+0020..U+005F and U+0061..U+007D, in code order
AsciiLow == " !\"#$%&'()*+,-./0123456789:;<=>?@ABCDEFGHIJKLMNOPQRSTUVWXYZ[\\]^_"
AsciiHigh == "abcdefghijklmnopqrstuvwxyz{|}"
HexLower == "0123456789abcdef"
HexUpper == "0123456789ABCDEF"
HexSet == {Ch(HexLower, i) : i \in 1..16} \cup {Ch(HexUpper, i) : i \in 1..16}
HexVal(c) == (CHOOSE v \in 1..16 : Ch(HexLower, v) = ToLowerChar(c)) - 1

\* the character of a code, "" for a code the strings of the model never hold
\* (control characters, U+0060, U+007E and up)
CharOfCode(v) ==
    IF v >= 32 /\ v <= 95 THEN Ch(AsciiLow, v - 31)
    ELSE IF v >= 97 /\ v <= 125 THEN Ch(AsciiHigh, v - 96)
    ELSE IF v = 9 THEN "\t"
    ELSE IF v = 10 THEN "\n"
    ELSE IF v = 13 THEN "\r"
    ELSE ""

CodeOfChar(c) ==
    IF c = "\t" THEN 9
    ELSE IF c = "\n" THEN 10
    ELSE IF c = "\r" THEN 13
    ELSE IF \E v \in 1..Len(AsciiLow) : Ch(AsciiLow, v) = c
    THEN 31 + (CHOOSE v \in 1..Len(AsciiLow) : Ch(AsciiLow, v) = c)
    ELSE 96 + (CHOOSE v \in 1..Len(AsciiHigh) : Ch(AsciiHigh, v) = c)

\* the escape %XX that stands at position i has its two hex digits
EscapeAt(s, i) ==
    i + 2 <= Len(s) /\ Ch(s, i + 1) \in HexSet /\ Ch(s, i + 2) \in HexSet

\* the UTF-8 bytes of U+2013, escaped
EnDashEscaped == "%e2%80%93"

\* the escape at position i is the second or the third byte of an escaped
\* U+2013
ContinuesEnDash(s, i) ==
    LitAtCI(s, i - 3, EnDashEscaped) \/ LitAtCI(s, i - 6, EnDashEscaped)

\* what the character at position i gives to the decoded text, in a string
\* whose escapes are all well formed: an escape gives its character, its hex
\* digits give nothing
DecodedAt(s, i) ==
    IF Ch(s, i) = "%"
    THEN IF LitAtCI(s, i, EnDashEscaped) THEN EnDash
         ELSE IF ContinuesEnDash(s, i) THEN ""
         ELSE CharOfCode(16 * HexVal(Ch(s, i + 1)) + HexVal(Ch(s, i + 2)))
    ELSE IF LitAt(s, i - 1, "%") \/ LitAt(s, i - 2, "%") THEN ""
    ELSE Ch(s, i)

\* the decoded text of the characters lo..hi
RECURSIVE DecodedRange(_, _, _)
DecodedRange(s, lo, hi) ==
    IF lo > hi THEN ""
    ELSE IF lo = hi THEN DecodedAt(s, lo)
    ELSE DecodedRange(s, lo, (lo + hi) \div 2) \o DecodedRange(s, (lo + hi) \div 2 + 1, hi)

\* an escape that decodeURIComponent rejects: no two hex digits follow the
\* %, or its byte is no character (of the bytes that begin no UTF-8
\* sequence and of control characters, the strings of the model hold none)
BadEscapeAt(s, i) ==
    /\ Ch(s, i) = "%"
    /\ \/ ~ EscapeAt(s, i)
       \/ /\ ~ LitAtCI(s, i, EnDashEscaped)
          /\ ~ ContinuesEnDash(s, i)
          /\ CharOfCode(16 * HexVal(Ch(s, i + 1)) + HexVal(Ch(s, i + 2))) = ""

\* decodeURIComponent(s): threw is TRUE for a URIError
decodeURIComponent(s) ==
    IF \E i \in 1..Len(s) : BadEscapeAt(s, i)
    THEN [threw |-> TRUE, text |-> ""]
    ELSE [threw |-> FALSE, text |-> DecodedRange(s, 1, Len(s))]

\* the characters encodeURIComponent leaves alone, besides letters and digits
UriUnreserved == {"-", "_", ".", "!", "*", "'", "(", ")"}

\* a surrogate code unit that stands alone (U+D800), which JSON.parse makes of
\* the escape \ud800: it is written as a form feed, and no other string
\* of the model holds a form feed
LoneSurrogate == "\f"

\* the escape of one character: its UTF-8 bytes as %XX
EncodedChar(c) ==
    IF c = EnDash THEN "%E2%80%93"
    ELSE IF c \in AlnumSet \cup UriUnreserved THEN c
    ELSE "%" \o Ch(HexUpper, (CodeOfChar(c) \div 16) + 1)
             \o Ch(HexUpper, (CodeOfChar(c) % 16) + 1)

EncodedAfter(e, rest) ==
    IF rest.threw THEN [threw |-> TRUE, text |-> ""]
    ELSE [threw |-> FALSE, text |-> e \o rest.text]

\* encodeURIComponent(s): threw is TRUE for a URIError (a lone surrogate)
RECURSIVE encodeURIComponent(_)
encodeURIComponent(s) ==
    IF s = "" THEN [threw |-> FALSE, text |-> ""]
    ELSE IF Ch(s, 1) = LoneSurrogate THEN [threw |-> TRUE, text |-> ""]
    ELSE EncodedAfter(EncodedChar(Ch(s, 1)), encodeURIComponent(SubSeq(s, 2, Len(s))))

\* ------------------------------------------------------------- assemblers
\* the apiUrl the server configures its client with
baseUrl == "https://music.amazon.com"

\* fetchMetadata: url = this.baseUrl + path, for a path that starts with /
FetchUrl(kind, id) == baseUrl \o "/" \o kind \o "/" \o id

\* what fetchMetadata returns for a page: parseOpenGraph(html, url)
Extract(page, kind, id) == parseOpenGraph(page, FetchUrl(kind, id)).md

\* if (!metadata.title) return null;
TitleMissing(md) == md.title = ""

\* a getAlbum that splits on the separator standing first in the title
AlbumFirstSeparatorByPosition(title) == FirstSeparatorByPosition(title)

\* getAlbum: the first separator of its list that the title includes
AlbumFirstSeparator(title) == IndexIn(SeparatorsIn(title))

\* the record getAlbum returns
AlbumRecord(md, albumName, artistName) ==
    [name |-> albumName,
     url |-> md.url,
     image |-> md.image,
     artist |-> [name |-> artistName, url |-> ""],
     songs |-> <<>>,
     totalSongs |-> 0]

\* if (parts.length >= 2) { albumName = parts[0].trim(); artistName = ... }
AlbumFromParts(md, parts) ==
    IF Len(parts) >= 2
    THEN AlbumRecord(md, Trim(parts[1]), Trim(parts[Len(parts)]))
    ELSE AlbumRecord(md, md.title, "Unknown Artist")

AlbumSplitOn(md, k) ==
    IF k = 0 THEN AlbumRecord(md, md.title, "Unknown Artist")
    ELSE AlbumFromParts(md, Split(md.title, separators[k]))

\* getAlbum, after the page was fetched
AlbumOf(md) ==
    IF TitleMissing(md) THEN NULL
    ELSE AlbumSplitOn(md, AlbumFirstSeparator(md.title))

\* getArtist, after the page was fetched
ArtistOf(md) ==
    IF TitleMissing(md) THEN NULL
    ELSE [name |-> md.title, url |-> md.url, image |-> md.image, topSongs |-> <<>>]

\* getPlaylist and getUserPlaylist, after the page was fetched
PlaylistOf(md, createdBy) ==
    IF TitleMissing(md) THEN NULL
    ELSE [name |-> md.title, url |-> md.url, image |-> md.image,
          createdBy |-> createdBy, songs |-> <<>>, totalSongs |-> 0]

\* artistName, albumName and albumUrl of getTrack; albumData is the nested
\* getAlbum result, or NULL when there was none (no link, no id, a null
\* result, or an error caught)
TrackArtistName(md, albumData) ==
    IF albumData # NULL THEN albumData.artist.name
    ELSE IF md.artist # "" THEN md.artist ELSE "Unknown Artist"

TrackAlbumName(md, albumData) ==
    IF albumData # NULL THEN albumData.name
    ELSE IF md.album # "" THEN md.album ELSE "Unknown Album"

\* a getTrack that forgets the URL of the album it fetched
TrackAlbumUrlDropped(albumData) == ""

\* albumUrl = albumData.url, after let albumUrl = ''
TrackAlbumUrl(albumData) == IF albumData # NULL THEN albumData.url ELSE ""

\* the record getTrack returns
TrackRecord(id, md, artistName, albumName, albumLink) ==
    [id |-> id,
     name |-> md.title,
     title |-> md.title,
     artist |-> [name |-> artistName, url |-> ""],
     duration |-> md.duration,
     url |-> md.url,
     image |-> md.image,
     album |-> [name |-> albumName, url |-> albumLink]]

\* url: albumUrl || `https://music.amazon.com/search/${encodeURIComponent(albumName)}`
TrackWith(id, md, artistName, albumName, albumUrl, encoded) ==
    IF albumUrl # ""
    THEN [threw |-> FALSE, value |-> TrackRecord(id, md, artistName, albumName, albumUrl)]
    ELSE IF encoded.threw
    THEN [threw |-> TRUE, value |-> NULL]
    ELSE [threw |-> FALSE,
          value |-> TrackRecord(id, md, artistName, albumName,
                                "https://music.amazon.com/search/" \o encoded.text)]

\* the return statement of getTrack: the record, or threw for the URIError
\* of encodeURIComponent
TrackOf(id, md, albumData) ==
    TrackWith(id, md, TrackArtistName(md, albumData), TrackAlbumName(md, albumData),
              TrackAlbumUrl(albumData),
              encodeURIComponent(TrackAlbumName(md, albumData)))

\* this.parseUrl(metadata.albumUrl)?.id
IdOfParsed(p) == IF p = NULL THEN "" ELSE p.id

\* the id getTrack passes to getAlbum, "" when it calls no getAlbum
AlbumIdOf(md) ==
    IF md.albumUrl = "" THEN "" ELSE IdOfParsed(parseUrl(md.albumUrl))

\* ----------------------------------------------------------------- search
\* the record search pushes without enrichment
Placeholder(label, p) ==
    [id |-> p.id,
     name |-> label \o " " \o p.id,
     url |-> "https://music.amazon.com/" \o p.type \o "/" \o p.id,
     artist |-> [name |-> "Unknown"],
     album |-> [name |-> "Unknown"],
     duration |-> 0]

\* a loop that stops one result too late
LimitReachedOffByOne(res, lim) == Len(res) > lim

\* if (results.length >= limit) break;
LimitReached(res, lim) == Len(res) >= lim

\* a scan that forgot the set of seen ids
AlreadyProcessedNever(ids, id) == FALSE

\* processedIds.has(parsed.id)
AlreadyProcessed(ids, id) == id \in ids

\* if (parsed && parsed.type === 'tracks' && !processedIds.has(parsed.id))
NewTrack(p, ids) ==
    IF p # NULL /\ p.type = "tracks" /\ ~ AlreadyProcessed(ids, p.id) THEN p ELSE NULL

\* the try block after decodeURIComponent
DecodedLink(d, ids) ==
    IF d.threw THEN NULL
    ELSE IF ~ Includes(d.text, "music.amazon.com") THEN NULL
    ELSE NewTrack(parseUrl(d.text), ids)

\* the body of the try block of one loop iteration, up to the id test: the
\* parsed track reference the iteration goes on with, or NULL when the link
\* is skipped (also when decodeURIComponent throws, which the catch absorbs)
TrackLink(link, ids) == DecodedLink(decodeURIComponent(link), ids)

\* an outer handler that lets the error out
SearchRethrow == [outcome |-> "threw", retval |-> <<>>]

\* catch (error) { console.error('Search error:', error); return []; }
SearchCatch == [outcome |-> "returned", retval |-> <<>>]

\* ------------------------------------------------------ parseUrl inputs
IdChars == {"B", "0", "z"}

RECURSIVE IdsOfLen(_)
IdsOfLen(n) ==
    IF n = 0 THEN {""}
    ELSE {p \o c : p \in IdsOfLen(n - 1), c \in IdChars}

AlnumIds == UNION {IdsOfLen(n) : n \in 1..MaxIdLen}

UrlLeads == {"", " ", "x", "http://evil.com/"}
UrlSchemes == {"https://", "http://", "HTTPS://", "ftp://"}
UrlHosts == {"music.amazon.com", "music.amazon.co.uk", "music.example.com", "amazon.com"}
UrlSegments == {"tracks", "albums", "artists", "playlists", "user-playlists",
                "unknown", "Tracks", ""}
UrlIds == AlnumIds \cup {"", "B-0", "B_0"}
UrlSuffixes == {"", "/slug", "?ref=x", "#frag", "/slug?ref=x", "/slug#frag",
                "?ref=x#frag", "/slug?ref=x#frag", "/", " "}

UrlPartsSet ==
    [lead : UrlLeads, scheme : UrlSchemes, host : UrlHosts, seg : UrlSegments,
     id : UrlIds, suffix : UrlSuffixes]

UrlBase(p) == p.lead \o p.scheme \o p.host \o "/" \o p.seg \o "/" \o p.id
UrlOf(p) == UrlBase(p) \o p.suffix

\* ------------------------------------------- parseOpenGraph, as a machine
Meta(prefix, property, content) ==
    [prefix |-> prefix, property |-> property, content |-> content,
     order |-> "property-content"]

MetaLibrary ==
    {Meta("og:", "title", "Song"), Meta("og:", "title", "Other - Band"),
     Meta("og:", "description", "Song from Album"),
     Meta("og:", "image", "i1"), Meta("og:", "image:secure_url", "i2"),
     Meta("og:", "type", "music.song"), Meta("og:", "site_name", "Amazon Music"),
     Meta("og:", "audio", "a1"),
     Meta("music:", "album", "https://music.amazon.com/albums/B0"),
     Meta("og:", "locale", "en"), Meta("music:", "duration", "232"),
     Meta("twitter:", "title", "Tweet"),
     [prefix |-> "og:", property |-> "title", content |-> "Reversed",
      order |-> "content-property"]}

RECURSIVE SeqsUpTo(_, _)
SeqsUpTo(S, n) ==
    IF n = 0 THEN {<<>>}
    ELSE SeqsUpTo(S, n - 1)
         \cup {Append(q, x) : q \in {r \in SeqsUpTo(S, n - 1) : Len(r) = n - 1}, x \in S}

NoArtist == [present |-> FALSE, name |-> "", id |-> ""]
NoAlbum == [present |-> FALSE, name |-> ""]

JsonObject(type, byArtist, inAlbum, duration) ==
    [json |-> "object", type |-> type, byArtist |-> byArtist, inAlbum |-> inAlbum,
     duration |-> duration]

JsonInvalid == [json |-> "invalid"]
JsonNull == [json |-> "null"]
JsonArray == [json |-> "array"]
JsonRecording ==
    JsonObject("MusicRecording", [present |-> TRUE, name |-> "Artist", id |-> "a1"],
               [present |-> TRUE, name |-> "Album"], "PT3M52S")

JsonLibrary ==
    {JsonInvalid, JsonNull, JsonArray, JsonRecording,
     JsonObject("MusicAlbum", [present |-> TRUE, name |-> "Artist", id |-> ""],
                [present |-> TRUE, name |-> "Album"], "PT1H"),
     JsonObject("MusicRecording", [present |-> TRUE, name |-> "", id |-> "a1"],
                NoAlbum, "PT1H2S"),
     JsonObject("MusicRecording", [present |-> TRUE, name |-> "", id |-> ""],
                [present |-> TRUE, name |-> ""], "bogus"),
     JsonObject("MusicRecording", NoArtist, [present |-> TRUE, name |-> "Album"], "")}

\* a block stage 3 reads nothing from
UnusableJson(b) == b.json # "object" \/ b.type # "MusicRecording"

TitleWords == {"", "Ab", BrandName}
TitleJoins == {"", separators[1], separators[2], separators[3]}

RECURSIVE TitlesOf(_)
TitlesOf(n) ==
    IF n = 1 THEN TitleWords
    ELSE {t \o j \o w : t \in TitlesOf(n - 1), j \in TitleJoins, w \in TitleWords}

TitleTexts ==
    TitlesOf(MaxTitleWords)
    \cup {"Whatever It Takes - Imagine Dragons", "Ab -  Cd ", "Song | Amazon Music"}

DescriptionTexts ==
    {"Song from Album", "Listen on Amazon Music", "from 'Quoted' by X",
     "On  \"Q\" now", "nothing here", "from ", "Amazon Music Unlimited", "FROM  '",
     "song on\t'"}

Html(metas, titles, jsonlds) == [metas |-> metas, titles |-> titles, jsonlds |-> jsonlds]

\* pages that vary the tags
TagMarkups ==
    {Html(m, t, j) : m \in SeqsUpTo(MetaLibrary, MaxMetas),
                     t \in {<<>>, <<"Page | Amazon Music">>, <<" Song - Artist ">>},
                     j \in {<<>>, <<JsonInvalid>>, <<JsonNull>>, <<JsonRecording>>}}

\* pages that vary the title, given by og:title or by <title>
TitleMarkups ==
    {Html(<<Meta("og:", "title", t)>>, <<>>, j) :
        t \in TitleTexts, j \in {<<>>, <<JsonRecording>>}}
    \cup {Html(<<>>, <<t>>, j) : t \in TitleTexts, j \in {<<>>, <<JsonRecording>>}}

\* pages that vary the description
DescriptionMarkups ==
    {Html(<<Meta("og:", "description", d)>>, <<>>, j) :
        d \in DescriptionTexts, j \in {<<>>, <<JsonRecording>>}}

\* pages that vary the structured-data blocks
JsonMarkups ==
    {Html(m, <<>>, j) : m \in {<<>>, <<Meta("og:", "title", "Song - Artist")>>},
                        j \in SeqsUpTo(JsonLibrary, MaxJsonLds)}

ExtractMarkups == TagMarkups \cup TitleMarkups \cup DescriptionMarkups \cup JsonMarkups

PageUrl == "https://music.amazon.com/tracks/B0"

\* ------------------------------------------------------- the constructor
\* an optional field of config: left out, or given with a value
Omitted == [given |-> FALSE]
Given(v) == [given |-> TRUE, value |-> v]

DefaultSearchLimit == 5
MaxSearchLimit == 10
DefaultTimeout == 10000

\* !config.apiUrl || config.apiUrl.trim() === ''
ApiUrlMissing(c) == ~c.apiUrl.given \/ c.apiUrl.value = "" \/ Trim(c.apiUrl.value) = ""

\* config.apiUrl without one trailing slash
BaseUrlOf(apiUrl) ==
    IF Len(apiUrl) > 0 /\ Ch(apiUrl, Len(apiUrl)) = "/"
    THEN SubSeq(apiUrl, 1, Len(apiUrl) - 1)
    ELSE apiUrl

\* Math.max(1, Math.min(n, 10))
ClampSearchLimit(n) == MaxOf({1, MinOf({n, MaxSearchLimit})})

\* config.searchLimit ? Math.max(1, Math.min(config.searchLimit, 10)) : 5
\* (undefined and 0 are falsy)
SearchLimitOf(o) ==
    IF o.given /\ o.value # 0 THEN ClampSearchLimit(o.value) ELSE DefaultSearchLimit

\* config.timeout || 10000
TimeoutOf(o) == IF o.given /\ o.value # 0 THEN o.value ELSE DefaultTimeout

\* the config of getClient in src/index.ts
ServerConfig ==
    [apiUrl |-> Given("https://music.amazon.com"),
     searchLimit |-> Given(10),
     timeout |-> Given(10000)]

\* the client a call of new AmazonMusicClient(c) leaves, c.apiUrl being set
Constructed(c) ==
    /\ config = c
    /\ created = "yes"
    /\ searchLimit = SearchLimitOf(c.searchLimit)
    /\ timeout = TimeoutOf(c.timeout)

ServerIdle == request = NULL /\ reply = NULL

FetchIdle ==
    /\ fetchPc = "idle" /\ now = 0 /\ deadline = 0 /\ timerId = FALSE
    /\ aborted = FALSE /\ responded = FALSE /\ sent = 0 /\ fetchResult = NULL

ParseIdle == url = "" /\ urlParts = NULL /\ parsed = NotCalled
ClientIdle ==
    /\ op = "none" /\ pc = "idle" /\ argId = "" /\ limit = 0
    /\ html = <<>> /\ pos = 1 /\ results = <<>> /\ processedIds = {}
    /\ trackId = "" /\ trackMd = DefaultMetadata("")
    /\ requests = <<>> /\ responses = <<>>
    /\ outcome = "pending" /\ retval = NULL
ExtractIdle ==
    /\ markup = Html(<<>>, <<>>, <<>>)
    /\ metadata = DefaultMetadata("")
    /\ stage = 0
    /\ raised = FALSE

InitExtract ==
    /\ markup \in ExtractMarkups
    /\ metadata = DefaultMetadata(PageUrl)
    /\ stage = 0
    /\ raised = FALSE
    /\ ParseIdle
    /\ ClientIdle
    /\ Constructed(ServerConfig)
    /\ FetchIdle
    /\ ServerIdle

StageMetaTags ==
    /\ stage = 0
    /\ metadata' = ScanMetaTags(metadata, markup.metas)
    /\ stage' = 1
    /\ UNCHANGED <<markup, raised, parseVars, clientVars,
                   configVars, fetchVars, serverVars>>

StageTitleElement ==
    /\ stage = 1
    /\ metadata' = TitleFallback(metadata, markup.titles)
    /\ stage' = 2
    /\ UNCHANGED <<markup, raised, parseVars, clientVars,
                   configVars, fetchVars, serverVars>>

StageJsonLd ==
    /\ stage = 2
    /\ \E r \in {JsonLdStage(metadata, markup.jsonlds)} :
           metadata' = r.md /\ raised' = r.threw
    /\ stage' = 3
    /\ UNCHANGED <<markup, parseVars, clientVars,
                   configVars, fetchVars, serverVars>>

StageTitleSplit ==
    /\ stage = 3 /\ ~ raised
    /\ metadata' = TitleSplit(metadata)
    /\ stage' = 4
    /\ UNCHANGED <<markup, raised, parseVars, clientVars,
                   configVars, fetchVars, serverVars>>

StageDescription ==
    /\ stage = 4 /\ ~ raised
    /\ metadata' = DescriptionAlbum(metadata)
    /\ stage' = 5
    /\ UNCHANGED <<markup, raised, parseVars, clientVars,
                   configVars, fetchVars, serverVars>>

NextExtract ==
    \/ StageMetaTags
    \/ StageTitleElement
    \/ StageJsonLd
    \/ StageTitleSplit
    \/ StageDescription

SpecExtract == InitExtract /\ [][NextExtract]_vars

\* ------------------------------------------------- parseUrl, as a machine
InitParse ==
    /\ urlParts \in UrlPartsSet \cup {NULL}
    /\ url = IF urlParts = NULL THEN "" ELSE UrlOf(urlParts)
    /\ parsed = NotCalled
    /\ ExtractIdle
    /\ ClientIdle
    /\ Constructed(ServerConfig)
    /\ FetchIdle
    /\ ServerIdle

CallParseUrl ==
    /\ parsed = NotCalled
    /\ parsed' = parseUrl(url)
    /\ UNCHANGED <<url, urlParts, extractVars, clientVars,
                   configVars, fetchVars, serverVars>>

NextParse == CallParseUrl

SpecParse == InitParse /\ [][NextParse]_vars

\* --------------------------------------------------- the client machine
\* RU= values of redirect links: a track, the same track with a query in
\* upper-case escapes, another track, an album, a track URL of another
\* host, and a value whose last escape is cut short
LinkB0 == "https%3a%2f%2fmusic.amazon.com%2ftracks%2fB0"
LinkB0Ref == "https%3A%2F%2Fmusic.amazon.com%2Ftracks%2FB0%3Fref%3Dx"
LinkB1 == "https%3a%2f%2fmusic.amazon.com%2ftracks%2fB1"
LinkAlbum == "https%3a%2f%2fmusic.amazon.com%2falbums%2fB2"
LinkOtherHost == "https%3a%2f%2fwww.example.com%2ftracks%2fB3"
LinkCut == "https%3a%2f%2fmusic.amazon.com%2ftracks%2fB4%"

\* the RU= values a search page may hold
LinkLibrary == {LinkB0, LinkB0Ref, LinkB1, LinkAlbum, LinkOtherHost, LinkCut}

\* the pages the first search request may be answered with
SearchPages == SeqsUpTo(LinkLibrary, MaxLinks)

\* the pages the second search request may be answered with: every page of
\* up to MaxLinks2 links, and two pages that repeat a track
Search2Pages ==
    SeqsUpTo({LinkB0, LinkB1, LinkAlbum, LinkCut}, MaxLinks2)
    \cup {<<LinkB0, LinkB0Ref>>, <<LinkB1, LinkB0>>}

AlbumLink == Meta("music:", "album", "https://music.amazon.com/albums/B9")

\* {"@type":"MusicRecording","inAlbum":{"name":"\ud800"}}
JsonSurrogate ==
    JsonObject("MusicRecording", NoArtist, [present |-> TRUE, name |-> LoneSurrogate], "")

\* the pages a track request may be answered with
TrackPages ==
    {Html(<<>>, <<>>, <<>>),
     Html(<<AlbumLink>>, <<>>, <<>>),
     Html(<<Meta("og:", "title", "Song - Artist")>>, <<>>, <<>>),
     Html(<<Meta("og:", "title", "Song"), AlbumLink>>, <<>>, <<>>),
     Html(<<Meta("og:", "title", "Song"),
            Meta("music:", "album", "https://music.amazon.com/artists/B8")>>,
          <<>>, <<>>),
     Html(<<Meta("og:", "title", "Song"), Meta("music:", "album", "no link")>>,
          <<>>, <<>>),
     Html(<<Meta("og:", "title", "Song")>>, <<>>, <<JsonRecording>>),
     Html(<<Meta("og:", "title", "Song")>>, <<>>, <<JsonSurrogate>>),
     Html(<<Meta("og:", "title", "Song"), AlbumLink>>, <<>>, <<JsonSurrogate>>)}

\* the pages a track request of search may be answered with: no title, a
\* title, a title and an album link, a title and an album name that
\* encodeURIComponent rejects
EnrichmentPages ==
    {Html(<<>>, <<>>, <<>>),
     Html(<<Meta("og:", "title", "Song - Artist")>>, <<>>, <<>>),
     Html(<<Meta("og:", "title", "Song"), AlbumLink>>, <<>>, <<>>),
     Html(<<Meta("og:", "title", "Song")>>, <<>>, <<JsonSurrogate>>)}

\* the pages any other request may be answered with
OtherPages ==
    {Html(<<>>, <<>>, <<>>),
     Html(<<Meta("og:", "title", "Album - Artist")>>, <<>>, <<>>),
     Html(<<>>, <<"Name | Amazon Music">>, <<>>),
     Html(<<Meta("og:", "title", " - Artist")>>, <<>>, <<>>)}

\* the queries of a search
SearchQueries == {"a b", LoneSurrogate}

\* a fetchMetadata without its timer
FetchErrorsWithoutTimeout == {"http", "network"}

\* the ways fetchMetadata fails
FetchErrors == {"timeout", "http", "network"}

ArgIds == {"B0", "B7"}

Assemblers == {"getTrack", "getAlbum", "getArtist", "getPlaylist", "getUserPlaylist"}

KindOf(o) ==
    CASE o = "getTrack" -> "tracks"
      [] o = "getAlbum" -> "albums"
      [] o = "getArtist" -> "artists"
      [] o = "getPlaylist" -> "playlists"
      [] o = "getUserPlaylist" -> "user-playlists"

PageRequest(kind, id) == [to |-> "page", kind |-> kind, id |-> id]
SearchRequest(phase) == [to |-> "search", phase |-> phase]
Answer(html2) == [ok |-> TRUE, html |-> html2]
Failure(kind) == [ok |-> FALSE, error |-> kind]

Init ==
    /\ ClientIdle
    /\ ParseIdle
    /\ ExtractIdle
    /\ Constructed(ServerConfig)
    /\ FetchIdle
    /\ ServerIdle

\* the call ends: return v
Return(v) ==
    /\ outcome' = "returned"
    /\ retval' = v
    /\ pc' = "done"

\* the call ends: throw
Throw ==
    /\ outcome' = "threw"
    /\ retval' = NULL
    /\ pc' = "done"

\* ---- the five assemblers, called by the caller
CallAssembler ==
    /\ pc = "idle"
    /\ \E o \in Assemblers, id \in ArgIds :
          /\ op' = o
          /\ argId' = id
          /\ trackId' = IF o = "getTrack" THEN id ELSE trackId
          /\ requests' = Append(requests, PageRequest(KindOf(o), id))
          /\ pc' = IF o = "getTrack" THEN "track_fetch" ELSE "page_fetch"
    /\ UNCHANGED <<searchVars, trackMd, responses, outcome, retval,
                   parseVars, extractVars,
                   configVars, fetchVars, serverVars>>

\* ---- loadFromUrl, called by the caller
\* the urls loadFromUrl is called with
LoadUrls ==
    {"https://music.amazon.com/tracks/B0",
     "https://music.amazon.com/albums/B0",
     "https://music.amazon.com/artists/B0",
     "https://music.amazon.com/playlists/B0",
     "https://music.amazon.com/user-playlists/B0",
     "https://music.amazon.com/Tracks/B0",
     "https://music.amazon.com/podcasts/B0",
     "B0"}

\* switch (parsed.type): the method of the case taken, "default" for none
SwitchOn(type) ==
    CASE type = "tracks" -> "getTrack"
      [] type = "albums" -> "getAlbum"
      [] type = "artists" -> "getArtist"
      [] type = "playlists" -> "getPlaylist"
      [] type = "user-playlists" -> "getUserPlaylist"
      [] OTHER -> "default"

\* loadFromUrl returns null before any request
LoadsNothing(p) == p = NULL \/ SwitchOn(p.type) = "default"

CallLoadFromUrl ==
    /\ pc = "idle"
    /\ \E u \in LoadUrls :
          \E p \in {parseUrl(u)} :
              /\ url' = u
              /\ parsed' = p
              /\ IF LoadsNothing(p)
                 THEN /\ op' = "loadFromUrl"
                      /\ Return(NULL)
                      /\ UNCHANGED <<argId, trackId, requests>>
                 ELSE /\ op' = SwitchOn(p.type)
                      /\ argId' = p.id
                      /\ trackId' = IF p.type = "tracks" THEN p.id ELSE trackId
                      /\ requests' = Append(requests, PageRequest(p.type, p.id))
                      /\ pc' = IF p.type = "tracks" THEN "track_fetch" ELSE "page_fetch"
                      /\ UNCHANGED <<outcome, retval>>
    /\ UNCHANGED <<urlParts, searchVars, trackMd, responses, extractVars,
                   configVars, fetchVars, serverVars>>

\* getAlbum, getArtist, getPlaylist, getUserPlaylist: fetchMetadata throws
PageFetchFails ==
    /\ pc = "page_fetch"
    /\ \E e \in FetchErrors : responses' = Append(responses, Failure(e))
    /\ Throw
    /\ UNCHANGED <<op, argId, searchVars, trackId, trackMd, requests,
                   parseVars, extractVars,
                   configVars, fetchVars, serverVars>>

\* getAlbum, getArtist, getPlaylist, getUserPlaylist: the page arrives
PageFetchOk ==
    /\ pc = "page_fetch"
    /\ \E page \in OtherPages :
          \E md \in {Extract(page, KindOf(op), argId)} :
              /\ responses' = Append(responses, Answer(page))
              /\ Return(CASE op = "getAlbum" -> AlbumOf(md)
                          [] op = "getArtist" -> ArtistOf(md)
                          [] op = "getPlaylist" -> PlaylistOf(md, "Amazon Music")
                          [] op = "getUserPlaylist" -> PlaylistOf(md, "User"))
    /\ UNCHANGED <<op, argId, searchVars, trackId, trackMd, requests,
                   parseVars, extractVars,
                   configVars, fetchVars, serverVars>>

\* ---- getTrack, called by the caller or by search
\* getTrack returns v to its caller: search pushes a non-null v and goes on
\* with the scan
\* a search that puts each enriched track in front of the list
TrackReturnsInFront(v) ==
    IF op = "search"
    THEN /\ results' = IF v # NULL THEN <<v>> \o results ELSE results
         /\ pc' = "search_scan1"
         /\ UNCHANGED <<outcome, retval>>
    ELSE /\ Return(v)
         /\ UNCHANGED results

TrackReturns(v) ==
    IF op = "search"
    THEN /\ results' = IF v # NULL THEN Append(results, v) ELSE results
         /\ pc' = "search_scan1"
         /\ UNCHANGED <<outcome, retval>>
    ELSE /\ Return(v)
         /\ UNCHANGED results

\* getTrack throws: search catches it and pushes the placeholder
TrackThrows ==
    IF op = "search"
    THEN /\ results' = Append(results, Placeholder("Track", [type |-> "tracks", id |-> trackId]))
         /\ pc' = "search_scan1"
         /\ UNCHANGED <<outcome, retval>>
    ELSE /\ Throw
         /\ UNCHANGED results

\* getTrack ends with r, the record of its return statement or its error
TrackEnds(r) == IF r.threw THEN TrackThrows ELSE TrackReturns(r.value)

TrackFetchFails ==
    /\ pc = "track_fetch"
    /\ \E e \in FetchErrors : responses' = Append(responses, Failure(e))
    /\ TrackThrows
    /\ UNCHANGED <<op, argId, limit, html, pos, processedIds, trackId, trackMd,
                   requests, parseVars, extractVars,
                   configVars, fetchVars, serverVars>>

TrackFetchOk ==
    /\ pc = "track_fetch"
    /\ \E page \in (IF op = "search" THEN EnrichmentPages ELSE TrackPages) :
          \E md \in {Extract(page, "tracks", trackId)} :
              /\ responses' = Append(responses, Answer(page))
              /\ trackMd' = md
              /\ IF TitleMissing(md)
                 THEN TrackReturns(NULL) /\ UNCHANGED requests
                 ELSE IF AlbumIdOf(md) # ""
                 THEN /\ requests' = Append(requests, PageRequest("albums", AlbumIdOf(md)))
                      /\ pc' = "track_album_fetch"
                      /\ UNCHANGED <<results, outcome, retval>>
                 ELSE TrackEnds(TrackOf(trackId, md, NULL)) /\ UNCHANGED requests
    /\ UNCHANGED <<op, argId, limit, html, pos, processedIds, trackId,
                   parseVars, extractVars,
                   configVars, fetchVars, serverVars>>

\* the nested getAlbum throws: getTrack catches it
TrackAlbumFails ==
    /\ pc = "track_album_fetch"
    /\ \E e \in FetchErrors : responses' = Append(responses, Failure(e))
    /\ TrackEnds(TrackOf(trackId, trackMd, NULL))
    /\ UNCHANGED <<op, argId, limit, html, pos, processedIds, trackId, trackMd,
                   requests, parseVars, extractVars,
                   configVars, fetchVars, serverVars>>

\* the nested getAlbum returns
TrackAlbumOk ==
    /\ pc = "track_album_fetch"
    /\ \E page \in OtherPages :
          /\ responses' = Append(responses, Answer(page))
          /\ TrackEnds(TrackOf(trackId, trackMd,
                               AlbumOf(Extract(page, "albums", AlbumIdOf(trackMd)))))
    /\ UNCHANGED <<op, argId, limit, html, pos, processedIds, trackId, trackMd,
                   requests, parseVars, extractVars,
                   configVars, fetchVars, serverVars>>

\* ---- search
\* search(query, limit): the search URL is built inside the try block, so
\* the URIError of encodeURIComponent(query) goes to the outer catch
CallSearch ==
    /\ pc = "idle"
    /\ \E l \in 0..MaxLimit : limit' = l
    /\ op' = "search"
    /\ \E query \in SearchQueries :
          IF encodeURIComponent(query).threw
          THEN /\ outcome' = SearchCatch.outcome
               /\ retval' = SearchCatch.retval
               /\ pc' = "done"
               /\ UNCHANGED requests
          ELSE /\ requests' = Append(requests, SearchRequest(1))
               /\ pc' = "search_fetch1"
               /\ UNCHANGED <<outcome, retval>>
    /\ UNCHANGED <<argId, html, pos, results, processedIds, trackId, trackMd,
                   responses, parseVars, extractVars,
                   configVars, fetchVars, serverVars>>

\* the first request fails in transport, or reading its body fails: the
\* outer catch
Search1Fails ==
    /\ pc = "search_fetch1"
    /\ \E e \in {"network", "body"} : responses' = Append(responses, Failure(e))
    /\ outcome' = SearchCatch.outcome
    /\ retval' = SearchCatch.retval
    /\ pc' = "done"
    /\ UNCHANGED <<op, argId, searchVars, trackId, trackMd, requests,
                   parseVars, extractVars,
                   configVars, fetchVars, serverVars>>

\* if (!response.ok) return [];
Search1NotOk ==
    /\ pc = "search_fetch1"
    /\ responses' = Append(responses, Failure("http"))
    /\ Return(<<>>)
    /\ UNCHANGED <<op, argId, searchVars, trackId, trackMd, requests,
                   parseVars, extractVars,
                   configVars, fetchVars, serverVars>>

Search1Ok ==
    /\ pc = "search_fetch1"
    /\ \E page \in SearchPages :
          /\ responses' = Append(responses, Answer(page))
          /\ html' = page
    /\ pos' = 1
    /\ results' = <<>>
    /\ processedIds' = {}
    /\ pc' = "search_scan1"
    /\ UNCHANGED <<op, argId, limit, trackId, trackMd, requests, outcome, retval,
                   parseVars, extractVars,
                   configVars, fetchVars, serverVars>>

\* the loop is over: no match is left, or the limit is reached
ScanOver == pos > Len(html) \/ LimitReached(results, limit)

\* a phase 2 that also runs after a single result
NoResultsOrOne(res) == Len(res) <= 1

\* if (results.length === 0)
NoResults(res) == Len(res) = 0

\* phase 1 ends: the second request when there is no result, else return
Scan1End ==
    /\ pc = "search_scan1"
    /\ ScanOver
    /\ IF NoResults(results)
       THEN /\ requests' = Append(requests, SearchRequest(2))
            /\ pc' = "search_fetch2"
            /\ UNCHANGED <<outcome, retval>>
       ELSE /\ Return(results)
            /\ UNCHANGED requests
    /\ UNCHANGED <<op, argId, searchVars, trackId, trackMd, responses,
                   parseVars, extractVars,
                   configVars, fetchVars, serverVars>>

\* phase 1, one iteration that pushes nothing
Scan1Skip ==
    /\ pc = "search_scan1"
    /\ ~ ScanOver
    /\ TrackLink(html[pos], processedIds) = NULL
    /\ pos' = pos + 1
    /\ UNCHANGED <<op, pc, argId, limit, html, results, processedIds, trackId,
                   trackMd, requests, responses, outcome, retval,
                   parseVars, extractVars,
                   configVars, fetchVars, serverVars>>

\* phase 1, one iteration on a new track id: await this.getTrack(parsed.id)
Scan1Track ==
    /\ pc = "search_scan1"
    /\ ~ ScanOver
    /\ \E p \in {TrackLink(html[pos], processedIds)} :
           /\ p # NULL
           /\ processedIds' = processedIds \cup {p.id}
           /\ trackId' = p.id
           /\ requests' = Append(requests, PageRequest("tracks", p.id))
    /\ pos' = pos + 1
    /\ pc' = "track_fetch"
    /\ UNCHANGED <<op, argId, limit, html, results, trackMd, responses, outcome,
                   retval, parseVars, extractVars,
                   configVars, fetchVars, serverVars>>

\* the second request fails in transport, or reading its body fails
Search2Fails ==
    /\ pc = "search_fetch2"
    /\ \E e \in {"network", "body"} : responses' = Append(responses, Failure(e))
    /\ outcome' = SearchCatch.outcome
    /\ retval' = SearchCatch.retval
    /\ pc' = "done"
    /\ UNCHANGED <<op, argId, searchVars, trackId, trackMd, requests,
                   parseVars, extractVars,
                   configVars, fetchVars, serverVars>>

\* if (response.ok) { ... } return results;
Search2NotOk ==
    /\ pc = "search_fetch2"
    /\ responses' = Append(responses, Failure("http"))
    /\ Return(results)
    /\ UNCHANGED <<op, argId, searchVars, trackId, trackMd, requests,
                   parseVars, extractVars,
                   configVars, fetchVars, serverVars>>

Search2Ok ==
    /\ pc = "search_fetch2"
    /\ \E page \in Search2Pages :
          /\ responses' = Append(responses, Answer(page))
          /\ html' = page
    /\ pos' = 1
    /\ pc' = "search_scan2"
    /\ UNCHANGED <<op, argId, limit, results, processedIds, trackId, trackMd,
                   requests, outcome, retval, parseVars, extractVars,
                   configVars, fetchVars, serverVars>>

Scan2End ==
    /\ pc = "search_scan2"
    /\ ScanOver
    /\ Return(results)
    /\ UNCHANGED <<op, argId, searchVars, trackId, trackMd, requests, responses,
                   parseVars, extractVars,
                   configVars, fetchVars, serverVars>>

\* phase 2, one iteration: the placeholder for a new track id, else nothing
Scan2Link ==
    /\ pc = "search_scan2"
    /\ ~ ScanOver
    /\ \E p \in {TrackLink(html[pos], processedIds)} :
           IF p = NULL
           THEN UNCHANGED <<results, processedIds>>
           ELSE /\ processedIds' = processedIds \cup {p.id}
                /\ results' = Append(results, Placeholder("Result", p))
    /\ pos' = pos + 1
    /\ UNCHANGED <<op, pc, argId, limit, html, trackId, trackMd, requests,
                   responses, outcome, retval, parseVars, extractVars,
                   configVars, fetchVars, serverVars>>

Next ==
    \/ CallAssembler
    \/ CallLoadFromUrl
    \/ PageFetchFails
    \/ PageFetchOk
    \/ TrackFetchFails
    \/ TrackFetchOk
    \/ TrackAlbumFails
    \/ TrackAlbumOk
    \/ CallSearch
    \/ Search1Fails
    \/ Search1NotOk
    \/ Search1Ok
    \/ Scan1End
    \/ Scan1Skip
    \/ Scan1Track
    \/ Search2Fails
    \/ Search2NotOk
    \/ Search2Ok
    \/ Scan2End
    \/ Scan2Link

Spec == Init /\ [][Next]_vars

\* ------------------------------------------ the constructor, as a machine
ApiUrls ==
    {Omitted, Given(""), Given(" "), Given("https://music.amazon.com"),
     Given("https://music.amazon.com/")}

\* the integers from MaxBeyond below 0 to MaxBeyond above the maximum
ConfigLimits ==
    {Omitted} \cup {Given(n) : n \in (0 - MaxBeyond)..(MaxSearchLimit + MaxBeyond)}

ConfigTimeouts == {Omitted, Given(0), Given(1)}

Configs == [apiUrl : ApiUrls, searchLimit : ConfigLimits, timeout : ConfigTimeouts]

InitConfig ==
    /\ config \in Configs
    /\ created = "no"
    /\ searchLimit = 0
    /\ timeout = 0
    /\ ClientIdle
    /\ ParseIdle
    /\ ExtractIdle
    /\ FetchIdle
    /\ ServerIdle

\* new AmazonMusicClient(config)
Construct ==
    /\ created = "no"
    /\ IF ApiUrlMissing(config)
       THEN /\ created' = "threw"
            /\ UNCHANGED <<searchLimit, timeout>>
       ELSE /\ created' = "yes"
            /\ searchLimit' = SearchLimitOf(config.searchLimit)
            /\ timeout' = TimeoutOf(config.timeout)
    /\ UNCHANGED <<config, parseVars, extractVars, clientVars, fetchVars, serverVars>>

GetSearchLimit ==
    /\ created = "yes"
    /\ pc = "idle"
    /\ op' = "getSearchLimit"
    /\ Return(searchLimit)
    /\ UNCHANGED <<argId, searchVars, trackId, trackMd, requests, responses,
                   parseVars, extractVars, configVars, fetchVars, serverVars>>

GetBaseUrl ==
    /\ created = "yes"
    /\ pc = "idle"
    /\ op' = "getBaseUrl"
    /\ Return(BaseUrlOf(config.apiUrl.value))
    /\ UNCHANGED <<argId, searchVars, trackId, trackMd, requests, responses,
                   parseVars, extractVars, configVars, fetchVars, serverVars>>

NextConfig ==
    \/ Construct
    \/ GetSearchLimit
    \/ GetBaseUrl

SpecConfig == InitConfig /\ [][NextConfig]_vars

\* ---------------------- the client of a caller that sets its own searchLimit
LibraryConfigs == {[ServerConfig EXCEPT !.searchLimit = Given(n)] : n \in 1..MaxLimit}

InitLibrary ==
    /\ ClientIdle
    /\ ParseIdle
    /\ ExtractIdle
    /\ \E c \in LibraryConfigs : Constructed(c)
    /\ FetchIdle
    /\ ServerIdle

SpecLibrary == InitLibrary /\ [][Next]_vars

\* ------------------------------------------------ fetchMetadata, as a machine
\* the clock stops one millisecond after the longest timeout given
MaxClock == MaxTime + 1

\* timeout left out, 0 (both give the default) or 1..MaxTime milliseconds
FetchConfigs ==
    {[ServerConfig EXCEPT !.timeout = t] :
        t \in {Omitted} \cup {Given(n) : n \in 0..MaxTime}}

Statuses == {200, 404, 500}
StatusText(status) ==
    CASE status = 200 -> "OK"
      [] status = 404 -> "Not Found"
      [] status = 500 -> "Internal Server Error"

\* response.ok
ResponseOk(status) == status >= 200 /\ status <= 299

\* the pages a 2xx response carries
FetchPages == OtherPages

TimeoutMessage == "Request timeout after " \o ToString(timeout) \o "ms"
FailureMessage(message) == "Request failed: " \o message

\* error.name === 'AbortError'
IsAbortErrorNever(name) == FALSE
IsAbortError(name) == name = "AbortError"

\* the outer catch: the message of the error it throws
OuterCatch(name, message) ==
    IF IsAbortError(name) THEN TimeoutMessage ELSE FailureMessage(message)

\* an error of that name and message reaches the outer catch, which throws
FetchThrowsOrRetries(name, message) ==
    /\ fetchPc' = "idle"
    /\ fetchResult' = fetchResult
FetchThrows(name, message) ==
    /\ fetchPc' = "done"
    /\ fetchResult' = [threw |-> TRUE, message |-> OuterCatch(name, message)]

InitFetch ==
    /\ ClientIdle
    /\ ParseIdle
    /\ ExtractIdle
    /\ \E c \in FetchConfigs : Constructed(c)
    /\ FetchIdle
    /\ ServerIdle

\* a fetchMetadata that leaves its timer pending
ClearTimeoutForgotten == timerId' = timerId

\* clearTimeout(timeoutId), after the response and in the inner catch
ClearTimeout == timerId' = FALSE

\* lines 171-199: the timer is set and the GET request is sent
FetchStart ==
    /\ fetchPc = "idle"
    /\ fetchPc' = "waiting"
    /\ timerId' = TRUE
    /\ deadline' = now + timeout
    /\ sent' = sent + 1
    /\ UNCHANGED <<now, aborted, responded, fetchResult, parseVars, extractVars,
                   clientVars, configVars, serverVars>>

\* a millisecond passes; a timer that is due runs first
Tick ==
    /\ fetchPc # "done"
    /\ now < MaxClock
    /\ ~(timerId /\ now >= deadline)
    /\ now' = now + 1
    /\ UNCHANGED <<fetchPc, deadline, timerId, aborted, responded, sent,
                   fetchResult, parseVars, extractVars, clientVars,
                   configVars, serverVars>>

\* the timer runs controller.abort(): fetch rejects with an AbortError, the
\* inner catch clears the timer and rethrows
TimerFires ==
    /\ timerId
    /\ now >= deadline
    /\ aborted' = TRUE
    /\ timerId' = FALSE
    /\ FetchThrows("AbortError", "This operation was aborted")
    /\ UNCHANGED <<now, deadline, responded, sent, parseVars, extractVars,
                   clientVars, configVars, serverVars>>

\* fetch rejects for a transport failure
TransportFails ==
    /\ fetchPc = "waiting"
    /\ ClearTimeout
    /\ FetchThrows("TypeError", "fetch failed")
    /\ UNCHANGED <<now, deadline, aborted, responded, sent, parseVars,
                   extractVars, clientVars, configVars, serverVars>>

\* the response arrives: the timer is cleared, a non-2xx status is thrown
ResponseArrives ==
    /\ fetchPc = "waiting"
    /\ responded' = TRUE
    /\ ClearTimeout
    /\ \E status \in Statuses :
          IF ResponseOk(status)
          THEN fetchPc' = "body" /\ UNCHANGED fetchResult
          ELSE FetchThrows("Error", "HTTP " \o ToString(status) \o ": "
                                        \o StatusText(status))
    /\ UNCHANGED <<now, deadline, aborted, sent, parseVars, extractVars,
                   clientVars, configVars, serverVars>>

\* response.text() resolves and the page is parsed
BodyArrives ==
    /\ fetchPc = "body"
    /\ \E page \in FetchPages :
          fetchResult' = [threw |-> FALSE,
                          value |-> Extract(page, "albums", "B0")]
    /\ fetchPc' = "done"
    /\ UNCHANGED <<now, deadline, timerId, aborted, responded, sent, parseVars,
                   extractVars, clientVars, configVars, serverVars>>

\* response.text() rejects
BodyFails ==
    /\ fetchPc = "body"
    /\ FetchThrows("TypeError", "terminated")
    /\ UNCHANGED <<now, deadline, timerId, aborted, responded, sent, parseVars,
                   extractVars, clientVars, configVars, serverVars>>

NextFetch ==
    \/ FetchStart
    \/ Tick
    \/ TimerFires
    \/ TransportFails
    \/ ResponseArrives
    \/ BodyArrives
    \/ BodyFails

SpecFetch == InitFetch /\ [][NextFetch]_vars

\* ---------------------------------- fetchMetadata, called again and again
\* the caller, having the result of one call, makes the next one: a new
\* controller and a new response
FetchAgain ==
    /\ fetchPc = "done"
    /\ sent < MaxCalls
    /\ fetchPc' = "idle"
    /\ aborted' = FALSE
    /\ responded' = FALSE
    /\ fetchResult' = NULL
    /\ UNCHANGED <<now, deadline, timerId, sent, parseVars, extractVars,
                   clientVars, configVars, serverVars>>

NextFetchCalls ==
    \/ FetchStart
    \/ Tick
    \/ TimerFires
    \/ TransportFails
    \/ ResponseArrives
    \/ BodyArrives
    \/ BodyFails
    \/ FetchAgain

SpecFetchCalls == InitFetch /\ [][NextFetchCalls]_vars

\* ------------------------------------- the route GET /api/search/songs
\* the values of the query parameter: absent, empty, a query
RouteQueries == {Omitted, Given(""), Given("a b")}

\* the values of the limit parameter: absent, empty, decimal numbers
RouteLimits ==
    {Omitted, Given(""), Given("0"), Given("1"), Given("2"), Given("51")}

\* c.req.query('limit') || '5'
LimitText(o) == IF o.given /\ o.value # "" THEN o.value ELSE "5"

\* parseInt(c.req.query('limit') || '5')
RouteLimit(o) == ParseInt(LimitText(o))

\* !query
QueryMissing(o) == ~o.given \/ o.value = ""

JsonReply(status, body) == [status |-> status, body |-> body]

InitServer ==
    /\ ClientIdle
    /\ ParseIdle
    /\ ExtractIdle
    /\ Constructed(ServerConfig)
    /\ FetchIdle
    /\ ServerIdle

\* the handler up to its first await: 400 without a query, else
\* client.search(query, limit)
GetSearchSongs ==
    /\ pc = "idle"
    /\ request = NULL
    /\ \E q \in RouteQueries, l \in RouteLimits :
          /\ request' = [path |-> "/api/search/songs", query |-> q, limit |-> l]
          /\ IF QueryMissing(q)
             THEN /\ reply' = JsonReply(400, [success |-> FALSE,
                                              error |-> "Query parameter is required"])
                  /\ UNCHANGED <<op, pc, limit, requests>>
             ELSE /\ op' = "search"
                  /\ limit' = RouteLimit(l)
                  /\ requests' = Append(requests, SearchRequest(1))
                  /\ pc' = "search_fetch1"
                  /\ UNCHANGED reply
    /\ UNCHANGED <<argId, html, pos, results, processedIds, trackId, trackMd,
                   responses, outcome, retval, parseVars, extractVars,
                   configVars, fetchVars>>

\* search has returned: c.json({ success: true, data: tracks })
SearchSongsReplies ==
    /\ request # NULL
    /\ reply = NULL
    /\ pc = "done"
    /\ reply' = JsonReply(200, [success |-> TRUE, data |-> retval])
    /\ UNCHANGED <<request, parseVars, extractVars, clientVars, configVars,
                   fetchVars>>

NextServer ==
    \/ GetSearchSongs
    \/ SearchSongsReplies
    \/ TrackFetchFails
    \/ TrackFetchOk
    \/ TrackAlbumFails
    \/ TrackAlbumOk
    \/ Search1Fails
    \/ Search1NotOk
    \/ Search1Ok
    \/ Scan1End
    \/ Scan1Skip
    \/ Scan1Track
    \/ Search2Fails
    \/ Search2NotOk
    \/ Search2Ok
    \/ Scan2End
    \/ Scan2Link

SpecServer == InitServer /\ [][NextServer]_vars

\* ------------------------- the client before a music host that never answers
\* the last answer logged is the timeout error of fetchMetadata
TimedOut(log) == log # <<>> /\ log[Len(log)] = Failure("timeout")

\* getAlbum, getArtist, getPlaylist, getUserPlaylist: the timer of
\* fetchMetadata ends the wait
PageTimesOut == PageFetchFails /\ TimedOut(responses')

\* getTrack, called by the caller or by search: the same
TrackTimesOut == TrackFetchFails /\ TimedOut(responses')

\* the steps search takes on its own, between two awaits
ScanSteps ==
    \/ Scan1End
    \/ Scan1Skip
    \/ Scan1Track
    \/ Scan2End
    \/ Scan2Link

\* the answers of the search engine
SearchEngineAnswers ==
    \/ Search1Fails
    \/ Search1NotOk
    \/ Search1Ok
    \/ Search2Fails
    \/ Search2NotOk
    \/ Search2Ok

NextSilent ==
    \/ CallAssembler
    \/ CallSearch
    \/ PageTimesOut
    \/ TrackTimesOut
    \/ ScanSteps
    \/ SearchEngineAnswers

\* the timers of fetchMetadata run (setTimeout fires once its delay has
\* passed); nothing makes the search engine answer
SpecSilent ==
    /\ Init
    /\ [][NextSilent]_vars
    /\ WF_vars(PageTimesOut)
    /\ WF_vars(TrackTimesOut)

\* --------------------------------------------- getAlbum, over many titles
\* album pages whose og:title varies over the titles of the title library
AlbumPages == {Html(<<Meta("og:", "title", t)>>, <<>>, <<>>) : t \in TitleTexts}

\* the caller calls getAlbum
CallGetAlbum == CallAssembler /\ op' = "getAlbum"

\* getAlbum: the page arrives
AlbumPageArrives ==
    /\ pc = "page_fetch"
    /\ op = "getAlbum"
    /\ \E page \in AlbumPages :
          \E md \in {Extract(page, "albums", argId)} :
              /\ responses' = Append(responses, Answer(page))
              /\ Return(AlbumOf(md))
    /\ UNCHANGED <<op, argId, searchVars, trackId, trackMd, requests,
                   parseVars, extractVars,
                   configVars, fetchVars, serverVars>>

NextAlbum ==
    \/ CallGetAlbum
    \/ AlbumPageArrives
    \/ PageFetchFails

SpecAlbum == Init /\ [][NextAlbum]_vars

\* ------------------------------------------- getTrack, over many durations
\* the numbers of a duration component, as written in a page: plain, with a
\* leading zero, and followed by another digit
ComponentTexts(unit) ==
    {""}
    \cup {ToString(n) \o unit : n \in 0..MaxComponent}
    \cup {"0" \o ToString(n) \o unit : n \in 0..MaxComponent}
    \cup {ToString(n) \o "2" \o unit : n \in 0..MaxComponent}

\* 'PT' followed by optional '<h>H', '<m>M', '<s>S'
DurationTexts ==
    {"PT" \o h \o m \o s : h \in ComponentTexts("H"), m \in ComponentTexts("M"),
                           s \in ComponentTexts("S")}

\* other values of the duration property
DurationOthers == {"", "P1D", "1M", "xPT1M"}

\* track pages with a title and one MusicRecording block
DurationPages ==
    {Html(<<Meta("og:", "title", "Song")>>, <<>>,
          <<JsonObject("MusicRecording", NoArtist, NoAlbum, d)>>) :
        d \in DurationTexts \cup DurationOthers}

\* the caller calls getTrack
CallGetTrack == CallAssembler /\ op' = "getTrack"

\* getTrack: the page arrives; it holds a title and no album link
DurationPageArrives ==
    /\ pc = "track_fetch"
    /\ op = "getTrack"
    /\ \E page \in DurationPages :
          \E md \in {Extract(page, "tracks", trackId)} :
              /\ responses' = Append(responses, Answer(page))
              /\ trackMd' = md
              /\ IF TitleMissing(md) THEN TrackReturns(NULL)
                 ELSE TrackEnds(TrackOf(trackId, md, NULL))
    /\ UNCHANGED <<op, argId, limit, html, pos, processedIds, trackId, requests,
                   parseVars, extractVars,
                   configVars, fetchVars, serverVars>>

NextDuration ==
    \/ CallGetTrack
    \/ DurationPageArrives
    \/ TrackFetchFails

SpecDuration == Init /\ [][NextDuration]_vars

\* ------------------------------------------------------ claims on parseUrl
FiveSegments == {"tracks", "albums", "artists", "playlists", "user-playlists"}

\* the call has returned
ParseDone == parsed # NotCalled

\* the input is exactly https://music.amazon.com/<segment>/<id>
CanonicalInput ==
    /\ urlParts # NULL
    /\ urlParts.lead = ""
    /\ urlParts.scheme = "https://"
    /\ urlParts.host = "music.amazon.com"
    /\ urlParts.seg \in FiveSegments
    /\ urlParts.id \in AlnumIds
    /\ urlParts.suffix = ""

\* the canonical URL of a parsed reference
RebuildUrl(r) == "https://music.amazon.com/" \o r.type \o "/" \o r.id

\* C4: for each of the five kind segments and every non-empty alphanumeric
\* id, parseUrl of https://music.amazon.com/<segment>/<id> returns
\* {type: <segment>, id: <id>}, and the URL rebuilt from the result is the
\* input URL.
C4_RoundTrip ==
    (ParseDone /\ CanonicalInput) =>
        /\ parsed # NULL
        /\ parsed = [type |-> urlParts.seg, id |-> urlParts.id]
        /\ RebuildUrl(parsed) = url

C4_Witness ==
    /\ ParseDone
    /\ CanonicalInput
    /\ urlParts.seg = "user-playlists"
    /\ Len(urlParts.id) = MaxIdLen
    /\ parsed # NULL

\* an absolute http(s) URL on the music host, one of the five kind segments
\* (letter case of scheme and segment ignored), an alphanumeric id, and
\* nothing before the scheme but white space
WellFormedInput ==
    /\ urlParts # NULL
    /\ urlParts.lead \in {"", " "}
    /\ urlParts.scheme \in {"https://", "http://", "HTTPS://"}
    /\ urlParts.host \in {"music.amazon.com", "music.amazon.co.uk"}
    /\ \E t \in FiveSegments :
          Len(t) = Len(urlParts.seg) /\ LitAtCI(urlParts.seg, 1, t)
    /\ urlParts.id \in AlnumIds

\* C5: parseUrl returns null for every input that is not an absolute http(s)
\* URL on the music host followed by one of the five kind segments and an
\* alphanumeric id, also when a service URL is only embedded after another
\* host or after leading characters.
C5_NullUnlessWellFormed ==
    (ParseDone /\ ~ WellFormedInput) => parsed = NULL

\* the part of C5 the pattern does enforce: with nothing but white space
\* before the scheme, every malformed input gives null
C5_NullWhenNotEmbedded ==
    (ParseDone /\ ~ WellFormedInput /\ urlParts # NULL
        /\ urlParts.lead \in {"", " "}) => parsed = NULL

SlugQueryFragment == {"/slug", "?ref=x", "#frag", "/slug?ref=x", "/slug#frag",
                      "?ref=x#frag", "/slug?ref=x#frag"}

\* C6: for every URL parseUrl recognizes, a trailing slug, a query string or
\* a fragment, alone or combined, directly after the id gives the same
\* {type, id} as the URL without them.
C6_SuffixIgnored ==
    (ParseDone /\ urlParts # NULL /\ urlParts.suffix \in SlugQueryFragment
        /\ parseUrl(UrlBase(urlParts)) # NULL)
        => parsed = parseUrl(UrlBase(urlParts))

\* what the pattern does: every such suffix but a fragment directly after
\* the id is ignored
C6_SuffixIgnoredButFragment ==
    (ParseDone /\ urlParts # NULL /\ urlParts.suffix \in SlugQueryFragment
        /\ ~ LitAt(urlParts.suffix, 1, "#")
        /\ parseUrl(UrlBase(urlParts)) # NULL)
        => parsed = parseUrl(UrlBase(urlParts))

\* ------------------------------------------------ claims on parseOpenGraph
\* C7: for every field of the metadata record, once the field is non-empty
\* (non-zero for duration) at the end of a stage, no later stage changes it.
C7_FieldsMonotonic ==
    [][stage >= 1 =>
          \A f \in MetadataFields :
              ~ FieldIsDefault(metadata, f) => metadata'[f] = metadata[f]]_vars

\* a page whose structured data gave the artist and the album, and whose
\* title and description would give other ones
C7_Witness ==
    /\ stage = 5
    /\ metadata.artist = "Artist"
    /\ metadata.album = "Album"
    /\ metadata.title = "Other - Band"
    /\ metadata.description = "Song from Album"
    /\ metadata.duration > 0

RecognizedOg == {"title", "description", "image", "image:secure_url", "type",
                 "site_name", "audio", "audio:url", "audio:secure_url"}

UsableMeta(m) ==
    /\ m.order = "property-content"
    /\ \/ m.prefix = "og:" /\ m.property \in RecognizedOg
       \/ m.prefix = "music:" /\ m.property = "album"

\* no tag of the page is usable: no recognized meta tag, no <title>, no
\* structured-data block of type MusicRecording
NoUsableTag ==
    /\ \A k \in 1..Len(markup.metas) : ~ UsableMeta(markup.metas[k])
    /\ markup.titles = <<>>
    /\ \A k \in 1..Len(markup.jsonlds) : UnusableJson(markup.jsonlds[k])

\* C8: parseOpenGraph never raises, whatever the markup (no tags, malformed
\* tags, a JSON-LD block that is not valid JSON, not an object or of another
\* type): no exception leaves it, and with no usable tag every field other
\* than url has its default in the record it returns.
C8_NeverRaises ==
    /\ ~ raised
    /\ (stage = 5 /\ NoUsableTag) => metadata = DefaultMetadata(PageUrl)

C8_Witness ==
    /\ stage = 5
    /\ NoUsableTag
    /\ markup.metas # <<>>
    /\ markup.jsonlds # <<>>
    /\ Head(markup.jsonlds) = JsonInvalid

\* the separator the claim names for a title: the first of en dash, hyphen,
\* pipe that occurs in it
ClaimedSeparator(title) ==
    IF Includes(title, " " \o EnDash \o " ") THEN " " \o EnDash \o " "
    ELSE IF Includes(title, " - ") THEN " - "
    ELSE IF Includes(title, " | ") THEN " | "
    ELSE ""

\* the artist the claim names for a title: the last segment of the split on
\* that separator, white space trimmed, unless it is empty or the brand name
ClaimedArtist(title) ==
    LET sep == ClaimedSeparator(title)
        segments == Split(title, sep)
        candidate == Trim(segments[Len(segments)])
    IN  IF sep = "" THEN ""
        ELSE IF candidate = "" \/ candidate = "Amazon Music" THEN ""
        ELSE candidate

\* C9: when the artist is still empty and the title is non-empty, the title
\* split uses only the first of ' - ' (en dash), ' - ' (hyphen), ' | ' that
\* occurs in the title; the artist becomes the last segment of that split,
\* and stays empty when that segment is empty or 'Amazon Music', no
\* lower-priority separator being tried.
C9_TitleSplitOrder ==
    [][(stage = 3 /\ stage' = 4 /\ metadata.artist = "" /\ metadata.title # "")
          => /\ metadata'.artist = ClaimedArtist(metadata.title)
             /\ (metadata.title = "Whatever It Takes - Imagine Dragons"
                    => metadata'.artist = "Imagine Dragons")]_vars

\* a title whose hyphen split gives the brand name and whose pipe split would
\* give a name: the artist stayed empty
C9_Witness ==
    /\ stage = 4
    /\ metadata.artist = ""
    /\ ClaimedSeparator(metadata.title) = " - "
    /\ Includes(metadata.title, " | ")
    /\ LET byPipe == Split(metadata.title, " | ")
       IN  Trim(byPipe[Len(byPipe)]) \notin {"", "Amazon Music"}

\* ---------------------------------------------------------- claims on search
\* a search call has ended
SearchDone == op = "search" /\ pc = "done"

\* C1: for every integer limit >= 0 and every search-engine response (any
\* number and order of redirect links, any outcome of each enrichment), the
\* list search(query, limit) returns has a length <= limit.
C1_LengthWithinLimit ==
    op = "search" =>
        /\ Len(results) <= limit
        /\ (pc = "done" /\ outcome = "returned") => Len(retval) <= limit

\* a call that returned as many records as its limit allows and left a link
\* of the page unread
C1_Witness ==
    /\ SearchDone
    /\ limit >= 1
    /\ outcome = "returned"
    /\ Len(retval) = limit
    /\ pos <= Len(html)

\* no two records of the list carry the same id
DistinctIds(list) ==
    \A i, j \in 1..Len(list) : list[i].id = list[j].id => i = j

\* C2: within one search call no two records of the returned list carry the
\* same id, whatever links the search page holds (repeated links, the same
\* id in phase 1 and in phase 2) and whichever of the enriched record or
\* the placeholder each id yields.
C2_NoDuplicateIds ==
    op = "search" =>
        /\ DistinctIds(results)
        /\ (pc = "done" /\ outcome = "returned") => DistinctIds(retval)

\* a page whose two links lead to the same track, read to its end by a call
\* whose limit left room for both: one record came back
C2_Witness ==
    /\ SearchDone
    /\ limit >= 2
    /\ Len(html) >= 2
    /\ pos > Len(html)
    /\ TrackLink(html[1], {}) # NULL
    /\ TrackLink(html[2], {}) # NULL
    /\ TrackLink(html[1], {}).id = TrackLink(html[2], {}).id
    /\ outcome = "returned"
    /\ Len(retval) = 1

\* the k-th request went to the search engine
IsSearchRequest(k) == requests[k].to = "search"

\* a search-engine request failed in transport or was answered non-2xx
SearchUnreachable ==
    \E k \in 1..Len(responses) : IsSearchRequest(k) /\ ~ responses[k].ok

\* a redirect link that leads to a track: its target decodes, names the
\* music host and parses as a track URL
MatchingLink(link) == TrackLink(link, {}) # NULL

\* no search page the call fetched holds a matching link
NoMatchingLink ==
    \A k \in 1..Len(responses) :
        (IsSearchRequest(k) /\ responses[k].ok) =>
            \A i \in 1..Len(responses[k].html) : ~ MatchingLink(responses[k].html[i])

\* C3: search never throws: when the first or the second search-engine
\* request fails at transport level or answers non-2xx, when a redirect
\* target cannot be URL-decoded, when an enrichment fetch fails, or when the
\* page has no matching redirect link, search completes normally, and it
\* returns the empty list when the search page is unreachable or holds no
\* matching link.
C3_SearchNeverThrows ==
    SearchDone =>
        /\ outcome = "returned"
        /\ retval # <<>> => (~ SearchUnreachable /\ ~ NoMatchingLink)

\* a call that met a redirect target that does not decode, then a track
\* whose enrichment fetch failed, and returned the placeholder
C3_Witness ==
    /\ SearchDone
    /\ outcome = "returned"
    /\ Len(responses) = 2
    /\ responses[1].ok
    /\ Len(responses[1].html) = 2
    /\ decodeURIComponent(responses[1].html[1]).threw
    /\ ~ responses[2].ok
    /\ requests[2].to = "page"
    /\ Len(retval) = 1

\* -------------------------------------------------- claims on the assemblers
\* a call of one of the five assemblers has ended
AssemblerDone == op \in Assemblers /\ pc = "done"

\* the fetch of the assembler's own page succeeded
FetchSucceeded == responses # <<>> /\ responses[1].ok

\* the title extracted from that page
ExtractedTitle == Extract(responses[1].html, KindOf(op), argId).title

\* C10: each of the five assemblers (getTrack, getAlbum, getArtist,
\* getPlaylist, getUserPlaylist) returns null, and does not throw, exactly
\* when the fetch succeeded and the extracted title is empty; with a
\* non-empty title it returns a record; getTrack with an empty title makes
\* no nested album request.
C10_NullIffTitleEmpty ==
    AssemblerDone =>
        /\ (outcome = "returned" /\ retval = NULL)
              <=> (FetchSucceeded /\ ExtractedTitle = "")
        /\ (FetchSucceeded /\ ExtractedTitle # "")
              => (outcome = "returned" /\ retval # NULL)
        /\ (op = "getTrack" /\ FetchSucceeded /\ ExtractedTitle = "")
              => Len(requests) = 1

\* the album name getTrack would escape for the search link: it has no album
\* URL to use in its place
EscapesAlbumName ==
    /\ op = "getTrack"
    /\ FetchSucceeded
    /\ ExtractedTitle # ""
    /\ TrackOf(trackId, trackMd, NULL).threw

\* what the assemblers do: C10 but for a getTrack whose return statement
\* escapes an album name that encodeURIComponent rejects
C10_NullIffTitleEmptyUnlessUriError ==
    AssemblerDone =>
        /\ (outcome = "returned" /\ retval = NULL)
              <=> (FetchSucceeded /\ ExtractedTitle = "")
        /\ (FetchSucceeded /\ ExtractedTitle # "" /\ ~ EscapesAlbumName)
              => (outcome = "returned" /\ retval # NULL)
        /\ (op = "getTrack" /\ FetchSucceeded /\ ExtractedTitle = "")
              => Len(requests) = 1

\* -------------------------------------------------- claims on loadFromUrl
\* loadFromUrl was called with url
LoadCalled == op # "none" /\ url # ""

\* kind names the same segment as type, letter case ignored
SameKind(kind, type) == Len(kind) = Len(type) /\ LitAtCI(type, 1, kind)

\* the call went to the assembler of the parsed kind, with the parsed id
DispatchedTo(p) ==
    /\ op \in Assemblers
    /\ SameKind(KindOf(op), p.type)
    /\ argId = p.id
    /\ Len(requests) >= 1
    /\ requests[1] = PageRequest(KindOf(op), p.id)

\* C11: loadFromUrl(url) makes no outbound request and returns null when
\* parseUrl(url) is null, and whenever parseUrl(url) is not null it calls the
\* one assembler that matches the parsed kind, with the parsed id.
C11_LoadDispatches ==
    LoadCalled =>
        IF parseUrl(url) = NULL
        THEN requests = <<>> /\ outcome = "returned" /\ retval = NULL
        ELSE DispatchedTo(parseUrl(url))

\* what the code does: the same, for the urls whose segment is in lower case
C11_LoadDispatchesLowerCase ==
    LoadCalled =>
        IF parseUrl(url) = NULL \/ parseUrl(url).type \notin FiveSegments
        THEN requests = <<>> /\ outcome = "returned" /\ retval = NULL
        ELSE DispatchedTo(parseUrl(url))

\* ----------------------------------------------- claims on the constructor
GotSearchLimit == op = "getSearchLimit" /\ pc = "done"

\* the given value clamped to [1,10], and 5 when omitted
ClampedOrDefault(o) ==
    IF o.given
    THEN (IF o.value < 1 THEN 1 ELSE IF o.value > 10 THEN 10 ELSE o.value)
    ELSE 5

\* C12: for every integer searchLimit given at construction and when it is
\* omitted, getSearchLimit() is an integer in [1,10]: the given value clamped
\* to [1,10], and 5 when omitted.
C12_LimitClamped ==
    GotSearchLimit =>
        /\ retval \in 1..10
        /\ retval = ClampedOrDefault(config.searchLimit)

\* what the code does: the same, but for a given 0, which it takes as omitted
C12_LimitClampedButZero ==
    GotSearchLimit =>
        /\ retval \in 1..10
        /\ retval = IF config.searchLimit = Given(0) THEN 5
                    ELSE ClampedOrDefault(config.searchLimit)

\* C13: the configured searchLimit is the maximum number of search results:
\* a client's search never returns more records than its getSearchLimit()
\* (hence never more than 10), whatever limit argument is passed.
C13_WithinSearchLimit ==
    (SearchDone /\ outcome = "returned") =>
        /\ Len(retval) <= searchLimit
        /\ Len(retval) <= 10

\* ---------------------------------------------- claims on fetchMetadata
FetchDone == fetchPc = "done"

\* the call failed with the timeout error
TimeoutReported == fetchResult.threw /\ fetchResult.message = TimeoutMessage

\* C14: if no response to the page request has arrived when the configured
\* timeout elapses, the in-flight request is aborted and fetchMetadata fails
\* with the timeout error, not with the generic request-failure error; a
\* response that arrives before the timeout is never reported as a timeout.
C14_TimeoutReported ==
    /\ fetchPc = "waiting" => now <= deadline
    /\ (fetchPc = "waiting" /\ now = deadline) => timerId
    /\ FetchDone =>
          /\ aborted => (TimeoutReported /\ ~responded /\ now = deadline)
          /\ responded => ~TimeoutReported
          /\ TimeoutReported => aborted

\* a call that waited out a timeout of at least one millisecond
C14_Witness ==
    /\ FetchDone
    /\ aborted
    /\ now >= 1
    /\ now = deadline
    /\ TimeoutReported

\* C15: one call of fetchMetadata issues exactly one GET request and never
\* retries: after a timeout, a non-2xx status or a transport failure it
\* fails without sending a second request.
C15_OneRequest ==
    /\ sent = IF fetchPc = "idle" THEN 0 ELSE 1
    /\ (FetchDone /\ fetchResult.threw) => sent = 1

\* a call that failed after its one request was answered with a non-2xx status
C15_Witness ==
    /\ FetchDone
    /\ fetchResult.threw
    /\ responded
    /\ sent = 1

\* ------------------------------------------------------ claims on getTrack
\* getTrack, called by the caller or through loadFromUrl, has ended
TrackDone == op = "getTrack" /\ pc = "done"

\* the track page had a title and an album link, and getTrack called getAlbum
NestedAlbumCalled ==
    /\ FetchSucceeded
    /\ ~TitleMissing(trackMd)
    /\ trackMd.albumUrl # ""
    /\ Len(responses) = 2

\* the nested getAlbum threw or returned null
NestedAlbumFailed ==
    /\ NestedAlbumCalled
    /\ \/ ~responses[2].ok
       \/ AlbumOf(Extract(responses[2].html, "albums", AlbumIdOf(trackMd))) = NULL

\* getTrack returned the track with the names it had before the nested call
KeptHeuristicNames ==
    /\ outcome = "returned"
    /\ retval # NULL
    /\ retval.id = trackId
    /\ retval.artist.name
          = (IF trackMd.artist # "" THEN trackMd.artist ELSE "Unknown Artist")
    /\ retval.album.name
          = (IF trackMd.album # "" THEN trackMd.album ELSE "Unknown Album")

\* C16: track enrichment fails open: when the track page was fetched with a
\* non-empty title and carries an album link, a failure of the nested album
\* fetch or a null album does not make getTrack fail, and getTrack returns
\* the track with the artist and album names it had before the nested call;
\* a failure of the track's own page fetch is propagated.
C16_EnrichmentFailsOpen ==
    TrackDone =>
        /\ NestedAlbumFailed => KeptHeuristicNames
        /\ ~FetchSucceeded => outcome = "threw"

\* what the code does: the same, but for an album name that
\* encodeURIComponent rejects
C16_FailsOpenUnlessUriError ==
    TrackDone =>
        /\ (NestedAlbumFailed /\ ~EscapesAlbumName) => KeptHeuristicNames
        /\ ~FetchSucceeded => outcome = "threw"

\* --------------------------------------------- claims on the two phases
\* phase 1 of search stands between two iterations of its loop
InPhase1 == op = "search" /\ pc = "search_scan1"

\* the record is the phase-1 placeholder of id
IsTrackPlaceholder(record, id) ==
    record = [id |-> id,
              name |-> "Track " \o id,
              url |-> "https://music.amazon.com/tracks/" \o id,
              artist |-> [name |-> "Unknown"],
              album |-> [name |-> "Unknown"],
              duration |-> 0]

\* the record is a Track of getTrack(id)
IsEnrichedTrack(record, id) ==
    /\ DOMAIN record = {"id", "name", "title", "artist", "duration", "url",
                        "image", "album"}
    /\ record.id = id
    /\ record.title # ""

\* every record is the enriched track or the placeholder of a scanned id
RecordsOfScannedIds ==
    \A i \in 1..Len(results) :
        /\ results[i].id \in processedIds
        /\ \/ IsTrackPlaceholder(results[i], results[i].id)
           \/ IsEnrichedTrack(results[i], results[i].id)

\* C17: in phase 1 of search, every unique track id scanned before the
\* limit is reached contributes exactly one record to the result: the
\* enriched Track when the track assembler succeeds, and otherwise the
\* placeholder.
C17_OneRecordPerId ==
    InPhase1 =>
        /\ RecordsOfScannedIds
        /\ \A id \in processedIds :
              Cardinality({i \in 1..Len(results) : results[i].id = id}) = 1

\* what the code does: at most one record, none when getTrack returned null
C17_AtMostOneRecordPerId ==
    InPhase1 =>
        /\ RecordsOfScannedIds
        /\ \A id \in processedIds :
              Cardinality({i \in 1..Len(results) : results[i].id = id}) <= 1

\* the second, site-wide request was sent
SecondRequestSent ==
    \E i \in 1..Len(requests) : requests[i] = SearchRequest(2)

\* the ids phase 1 called getTrack for
Phase1Ids ==
    {requests[i].id : i \in {j \in 1..Len(requests) :
                                 requests[j].to = "page" /\ requests[j].kind = "tracks"}}

\* the record has the shape of the phase-1 placeholder of id, named Result
IsResultPlaceholder(record, id) ==
    /\ DOMAIN record = {"id", "name", "url", "artist", "album", "duration"}
    /\ record.id = id
    /\ record.name = "Result " \o id
    /\ record.url = "https://music.amazon.com/tracks/" \o id
    /\ record.artist = [name |-> "Unknown"]
    /\ record.album = [name |-> "Unknown"]
    /\ record.duration = 0

\* the ids of the track links among the first n matches of the page
TrackIdsUpTo(n) ==
    {TrackLink(html[j], {}).id : j \in {k \in 1..n : TrackLink(html[k], {}) # NULL}}

\* phase 2, between two iterations or at its end: the limit, the filter to
\* kind tracks, the deduplication (against phase 1 as well), no assembler
Phase2Scan ==
    /\ requests[Len(requests)] = SearchRequest(2)
    /\ Len(results) <= limit
    /\ \A i \in 1..Len(results) : IsResultPlaceholder(results[i], results[i].id)
    /\ \A i, j \in 1..Len(results) : results[i].id = results[j].id => i = j
    /\ {results[i].id : i \in 1..Len(results)} = processedIds \ Phase1Ids
    /\ processedIds \ Phase1Ids \subseteq TrackIdsUpTo(pos - 1)
    /\ (Len(results) < limit) => TrackIdsUpTo(pos - 1) \subseteq processedIds

\* one step: the second request is sent exactly when phase 1 ends with no
\* result, and nothing is requested after it
Phase2Step ==
    /\ (SecondRequestSent' /\ ~SecondRequestSent)
          <=> (InPhase1 /\ ScanOver /\ results = <<>>)
    /\ SecondRequestSent => requests' = requests

\* C18: search issues the second (site-wide) request if and only if phase 1
\* ended with zero results after a successful first request; phase 2
\* applies the same scan (same filter to kind tracks, same deduplication,
\* same limit) and calls no assembler, each match giving a placeholder
\* record of the shape of the phase-1 placeholder.
C18_SecondPhase ==
    /\ []((op = "search" /\ pc = "search_scan2") => Phase2Scan)
    /\ []((op = "search" /\ SecondRequestSent) => (responses # <<>> /\ responses[1].ok))
    /\ [][Phase2Step]_vars

\* a call whose phase 1 scanned an id without a result and whose phase 2
\* returned a placeholder
C18_Witness ==
    /\ SearchDone
    /\ SecondRequestSent
    /\ Phase1Ids # {}
    /\ Len(retval) >= 1
    /\ IsResultPlaceholder(retval[1], retval[1].id)

\* ------------------------------------------------------ claims on duration
\* C19: duration always returns 0: every Track returned by getTrack,
\* loadFromUrl or search has duration 0, whatever the fetched page contains.
C19_DurationZero ==
    /\ (TrackDone /\ outcome = "returned" /\ retval # NULL) => retval.duration = 0
    /\ op = "search" => \A i \in 1..Len(results) : results[i].duration = 0

\* what the code does: the duration is the one parseOpenGraph extracted
C19_DurationExtracted ==
    /\ (TrackDone /\ outcome = "returned" /\ retval # NULL)
          => retval.duration = trackMd.duration
    /\ op = "search" => \A i \in 1..Len(results) : results[i].duration = 0

\* ------------------------------------------ claims on the search endpoint
\* the handler of GET /api/search/songs has called client.search
RouteSearching ==
    /\ request # NULL
    /\ request.path = "/api/search/songs"
    /\ op = "search"

\* C20: the search endpoint GET /api/search/songs uses limit 20 when the
\* limit parameter is absent and never returns more than 50 records,
\* whatever limit value the request carries: the bound 1..50 is enforced by
\* the caller of search.
C20_RouteLimit ==
    /\ RouteSearching =>
          /\ ~request.limit.given => limit = 20
          /\ limit \in 1..50
    /\ (RouteSearching /\ reply # NULL) => Len(reply.body.data) <= 50

\* what the code does: the limit is the number the parameter spells, 5 when
\* the parameter is absent or empty, and nothing bounds it
C20_RouteLimitAsParsed ==
    /\ RouteSearching =>
          limit = (IF request.limit.given /\ request.limit.value # ""
                   THEN ParseInt(request.limit.value) ELSE 5)
    /\ (RouteSearching /\ reply # NULL) =>
          /\ reply.status = 200
          /\ reply.body.data = retval
          /\ Len(reply.body.data) <= limit

\* ------------------------------------------- claims on the Track record
\* getTrack returned a Track
TrackReturned == TrackDone /\ outcome = "returned" /\ retval # NULL

\* 'https://music.amazon.com/search/<encoded name>'
SearchLinkOf(name) ==
    "https://music.amazon.com/search/" \o encodeURIComponent(name).text

\* the url is empty or the search-fallback link of name
EmptyOrSearchLink(link, name) ==
    link = "" \/ (~encodeURIComponent(name).threw /\ link = SearchLinkOf(name))

\* the album getTrack fetched through the album link, NULL when it has none
EnrichedAlbum ==
    IF NestedAlbumCalled /\ ~NestedAlbumFailed
    THEN AlbumOf(Extract(responses[2].html, "albums", AlbumIdOf(trackMd)))
    ELSE NULL

InFlight == Len(requests) - Len(responses)

\* the track each link of the library leads to, NULL when it leads to none
LinkTargets == [link \in LinkLibrary |-> TrackLink(link, {})]

\* the records from the i-th on stand in the order in which their ids first
\* appear among the links of the page from the k-th on, seen being the ids
\* of the links before; a link may have no record (a null track, the limit)
RECURSIVE InOrderFrom(_, _, _, _)
InOrderFrom(records, i, k, seen) ==
    IF i > Len(records) THEN TRUE
    ELSE IF k > Len(html) THEN FALSE
    ELSE \E p \in {LinkTargets[html[k]]} :
            IF p = NULL THEN InOrderFrom(records, i, k + 1, seen)
            ELSE IF p.id \in seen THEN InOrderFrom(records, i, k + 1, seen)
            ELSE IF p.id = records[i].id
            THEN InOrderFrom(records, i + 1, k + 1, seen \cup {p.id})
            ELSE InOrderFrom(records, i, k + 1, seen \cup {p.id})

\* the records stand in the order in which their links first appear
InLinkOrder(records) == InOrderFrom(records, 1, 1, {})

\* C22: within one search call at most one outbound request (search-engine
\* request, track page fetch or nested album fetch) is in flight at any
\* time: the enrichment of a candidate, its nested album fetch included,
\* has completed or failed before the scan moves to the next link, and
\* results are appended in the order the links appear in the search page.
C22_Sequential ==
    op = "search" =>
        /\ InFlight \in {0, 1}
        /\ pc \in {"search_scan1", "search_scan2", "done"} => InFlight = 0
        /\ InFlight = 1 =>
              requests[Len(requests)]
                 = (CASE pc = "search_fetch1" -> SearchRequest(1)
                      [] pc = "search_fetch2" -> SearchRequest(2)
                      [] pc = "track_fetch" -> PageRequest("tracks", trackId)
                      [] pc = "track_album_fetch" ->
                            PageRequest("albums", AlbumIdOf(trackMd)))
        /\ pc \in {"search_scan1", "search_scan2"} => InLinkOrder(results)
        /\ (pc = "done" /\ outcome = "returned") => InLinkOrder(retval)

\* a search that returned two tracks after a nested album fetch
C22_Witness ==
    /\ SearchDone
    /\ Len(retval) >= 2
    /\ \E i \in 1..Len(requests) : requests[i] = PageRequest("albums", "B9")

\* --------------------------------------------------- claims on time-boxing
\* the call waits for the search engine, for a page through fetchMetadata
SearchEngineWaits == {"search_fetch1", "search_fetch2"}
PageWaits == {"page_fetch", "track_fetch", "track_album_fetch"}

AlbumReturned ==
    /\ op = "getAlbum"
    /\ pc = "done"
    /\ outcome = "returned"
    /\ retval # NULL

\* the title getAlbum was given: the title of the page of the last answer
AlbumTitle == Extract(responses[Len(responses)].html, "albums", argId).title

\* the segment before the first occurrence of the separator
ClaimedFirstSegment(title, sep) == SubSeq(title, 1, IndexOf(title, sep) - 1)

\* the segment after the last occurrence the split cuts at
ClaimedLastSegment(title, sep) == Split(title, sep)[Len(Split(title, sep))]

\* the names the claim gives an album of that title
ClaimedAlbumName(title) ==
    IF ClaimedSeparator(title) = "" THEN title
    ELSE Trim(ClaimedFirstSegment(title, ClaimedSeparator(title)))

ClaimedAlbumArtist(title) ==
    IF ClaimedSeparator(title) = "" THEN "Unknown Artist"
    ELSE Trim(ClaimedLastSegment(title, ClaimedSeparator(title)))

\* C24: getAlbum splits a non-empty title on the first of ' - ' (en dash),
\* ' - ' (hyphen), ' | ' (in that priority order) that occurs in it: the
\* album name is the trimmed first segment and the artist name the trimmed
\* last segment; when none occurs, the album name is the whole title and the
\* artist name is 'Unknown Artist'.
C24_AlbumSplit ==
    AlbumReturned =>
        /\ AlbumTitle # ""
        /\ retval.name = ClaimedAlbumName(AlbumTitle)
        /\ retval.artist.name = ClaimedAlbumArtist(AlbumTitle)
        /\ (AlbumTitle = "Ab | Ab - Ab"
               => retval.name = "Ab | Ab" /\ retval.artist.name = "Ab")
        /\ (AlbumTitle = "Ab" => retval.artist.name = "Unknown Artist")

\* an album whose title holds a pipe before a hyphen: split on the hyphen
C24_Witness ==
    /\ AlbumReturned
    /\ ClaimedSeparator(AlbumTitle) = " - "
    /\ Includes(AlbumTitle, " | ")
    /\ IndexOf(AlbumTitle, " | ") < IndexOf(AlbumTitle, " - ")
    /\ retval.artist.name # ""

\* ---------------------------------------------- claims on the ISO duration
\* the duration property of the MusicRecording block of the page answered
PageDuration == responses[Len(responses)].html.jsonlds[1].duration

\* where the digits of a component start: after the unit letter before it
ComponentStart(d, before) ==
    IF before # "" /\ Includes(d, before) THEN IndexOf(d, before) + 1 ELSE 0

\* <n> of '<n><unit>', 0 when the component is missing; the digits stand
\* between the nearest earlier unit letter (or 'PT') and the unit letter
ClaimedComponent(d, unit, before1, before2) ==
    IF ~ Includes(d, unit) THEN 0
    ELSE ParseInt(SubSeq(d, MaxOf({3, ComponentStart(d, before1),
                                      ComponentStart(d, before2)}),
                         IndexOf(d, unit) - 1))

ClaimedDuration(d) ==
    ClaimedComponent(d, "H", "", "") * 3600
    + ClaimedComponent(d, "M", "H", "") * 60
    + ClaimedComponent(d, "S", "H", "M")

RecordingPositions(jsonlds) ==
    {i \in 1..Len(jsonlds) : ~ UnusableJson(jsonlds[i])}

\* the names the claim reads from a MusicRecording block, a field the block
\* lacks leaving the value as it was
ClaimedJsonArtist(b, artist) ==
    IF ~ b.byArtist.present THEN artist
    ELSE IF b.byArtist.name # "" THEN b.byArtist.name ELSE b.byArtist.id

ClaimedJsonAlbum(b, album) == IF b.inAlbum.present THEN b.inAlbum.name ELSE album

\* the JSON-LD stage read the names of block b
ReadsRecording(b) ==
    /\ metadata'.artist = ClaimedJsonArtist(b, metadata.artist)
    /\ metadata'.album = ClaimedJsonAlbum(b, metadata.album)

\* C26: whenever the markup contains a structured-data (application/ld+json)
\* block of type MusicRecording, wherever it stands among the page's
\* structured-data blocks, the extractor reads artistName from byArtist.name
\* (or byArtist's @id when the name is absent) and albumName from
\* inAlbum.name of that block.
C26_RecordingReadAnywhere ==
    [][(stage = 2 /\ stage' = 3 /\ RecordingPositions(markup.jsonlds) # {})
          => ReadsRecording(markup.jsonlds[MinOf(RecordingPositions(markup.jsonlds))])]_vars

\* what the code does: a MusicRecording block is read when it is the first
\* ld+json block of the page
C26_RecordingReadWhenFirst ==
    [][(stage = 2 /\ stage' = 3 /\ 1 \in RecordingPositions(markup.jsonlds))
          => ReadsRecording(markup.jsonlds[1])]_vars

\* ------------------------------------------------ claims on the parsed kind
\* String.prototype.toLowerCase, for the letters of a path segment
RECURSIVE LowerCased(_)
LowerCased(s) ==
    IF s = "" THEN ""
    ELSE ToLowerChar(Ch(s, 1)) \o LowerCased(SubSeq(s, 2, Len(s)))

\* parseUrl returned a record
ParsedSomething == ParseDone /\ parsed # NULL

\* C27: the type field of every non-null result of parseUrl is exactly one
\* of the five lowercase literals 'tracks', 'albums', 'artists', 'playlists',
\* 'user-playlists', for every input string including URLs whose path
\* segment is written with uppercase letters.
C27_TypeIsLiteral == ParsedSomething => parsed.type \in FiveSegments

\* what the code does: the type is the segment as the URL writes it, one of
\* the five literals up to letter case
C27_TypeIsLiteralUpToCase ==
    ParsedSomething =>
        /\ parsed.type = urlParts.seg
        /\ LowerCased(parsed.type) \in FiveSegments

\* ------------------------------------------- claims on the album link kind
\* the kind the album link of the track page parses to, "" when it does not
\* parse
AlbumLinkKind ==
    IF trackMd.albumUrl = "" \/ parseUrl(trackMd.albumUrl) = NULL THEN ""
    ELSE parseUrl(trackMd.albumUrl).type

\* getTrack (called by the caller or by search) waits for its nested getAlbum
NestedAlbumPending == pc = "track_album_fetch"

\* C28: getTrack invokes the album assembler only for an album link whose
\* parsed kind is albums: a music:album link that parses to another kind
\* (tracks, artists, playlists, user-playlists) causes no nested request and
\* leaves the track's artist, album name and album URL as extracted.
C28_AlbumKindOnly ==
    /\ NestedAlbumPending => AlbumLinkKind = "albums"
    /\ (TrackDone /\ FetchSucceeded /\ ~TitleMissing(trackMd)
          /\ AlbumLinkKind \in FiveSegments \ {"albums"})
          => (Len(requests) = 1 /\ KeptHeuristicNames)

\* what the code does: the album assembler is invoked, with the parsed id,
\* for every album link that parses, whatever its kind
C28_AlbumForAnyKind ==
    NestedAlbumPending =>
        /\ AlbumLinkKind # ""
        /\ requests[Len(requests)]
              = PageRequest("albums", parseUrl(trackMd.albumUrl).id)

\* --------------------------------------------- claims on the track's names
\* the nested getAlbum returned an album
NestedAlbumSucceeded == NestedAlbumCalled /\ ~NestedAlbumFailed

\* C29: in every Track returned by getTrack, artist.name and album.name are
\* non-empty strings, whatever the track page and the linked album page
\* contain (including album titles that begin or end with a separator).
C29_NamesNonEmpty ==
    (TrackDone /\ outcome = "returned" /\ retval # NULL)
        => (retval.artist.name # "" /\ retval.album.name # "")

\* what the code does: the names are non-empty when they are the track
\* page's own, and the names of the album record, empty or not, otherwise
C29_NamesNonEmptyUnlessFromAlbum ==
    (TrackDone /\ outcome = "returned" /\ retval # NULL)
        => IF NestedAlbumSucceeded
           THEN /\ retval.album.name
                     = AlbumOf(Extract(responses[2].html, "albums",
                                       AlbumIdOf(trackMd))).name
                /\ retval.artist.name
                     = AlbumOf(Extract(responses[2].html, "albums",
                                       AlbumIdOf(trackMd))).artist.name
           ELSE retval.artist.name # "" /\ retval.album.name # ""

\* ------------------------------------------------------ claims on the timer
\* the request of the call at hand is outstanding
RequestOutstanding == fetchPc = "waiting"

\* C30: on every path by which fetchMetadata ends (response received and
\* parsed, non-2xx status, transport failure, abort by timeout) the timeout
\* timer has been cleared, so no abort fires after the call has settled and a
\* timer of one call never aborts the request of another call: a timer is
\* pending only while the request of its own call is outstanding, and an
\* abort happens only then, at that call's deadline.
C30_TimerCleared ==
    /\ [](FetchDone => ~timerId)
    /\ [](timerId => RequestOutstanding)
    /\ [][(~aborted /\ aborted')
             => (RequestOutstanding /\ timerId /\ now >= deadline)]_vars
    /\ [][FetchDone => (aborted' = aborted \/ fetchPc' = "idle")]_vars

\* a second call whose page was parsed after its deadline had gone by: the
\* timer, cleared when the response arrived, did not abort it
C30_Witness ==
    /\ FetchDone
    /\ sent = 2
    /\ responded
    /\ ~aborted
    /\ ~fetchResult.threw
    /\ now > deadline

====
